---- MODULE Spec2Model ----
(***************************************************************************)
(* Model of the planning / verification / retry pipeline of agently:       *)
(*   planner/verifier.py  StepVerifier (verify_step, should_retry_step)    *)
(*   planner/planner.py   AgentlyPlanner (generate_plan, recover_from_error,  *)
(*                        select_element, _clean_json_response)            *)
(*   planner/conversation_logger.py  ConversationLogger                    *)
(*   benchmark_tasks/task_runner.py  TaskRunner (run_task)                 *)
(*   planner/prompts.py   PromptTemplate (format)                          *)
(* Text that the code searches or compares is a sequence of one-character  *)
(* strings; a float in [0,1] is an integer number of hundredths; a Python  *)
(* or JSON value is a record [t |-> type tag, v |-> value].                *)
(***************************************************************************)
EXTENDS Integers, Sequences, FiniteSets, TLC

VARIABLES
    \* ---- StepVerifier.verify_step (one call in progress at a time)
    pc,                   \* position inside verify_step
    args,                 \* arguments of the call in progress
    screenshot_path,      \* local of verify_step
    files,                \* files of run_dir written by this call
    verification_result,  \* local of verify_step (a VerificationResult)
    ret,                  \* what the call gave back to its caller
    trace,                \* external calls made by this call, in order
    model_reply,          \* what the outside world answered the validation request
    analysis_reply,       \* what the outside world answered the analysis request
    \* ---- StepVerifier.should_retry_step called directly
    policy_in,            \* the VerificationResult and max_retries passed
    policy_out,           \* the returned (should_retry, reason)
    \* ---- AgentlyPlanner (one call in progress at a time)
    plan_pc,              \* position inside the method
    plan_entry,           \* the method the caller invoked
    plan_op,              \* the method whose body is executing
    plan_context,         \* the PlanningContext passed
    plan_response,        \* what the model API answered
    plan_llm,             \* what _call_llm gave back to the method
    plan_ret,             \* the ActionPlan given back to the caller
    select_args,          \* the arguments of select_element
    select_ret,           \* what select_element gave back to its caller
    \* ---- ConversationLogger of the planner
    log_dir,              \* self.log_dir
    conversation_counter, \* self.conversation_counter
    log_files,            \* the files of log_dir: name -> sections written
    log_in,               \* the arguments of a direct log_conversation call
    log_out,              \* what that call gave back, and the files before it
    planner_instances,    \* how many planners were constructed on the log directory
    \* ---- TaskRunner.run_task (one call in progress at a time)
    run_pc,               \* position inside run_task
    run_task_in,          \* the task and the timeout override passed
    run_clock,            \* seconds since run_task took start_time
    run_trace,            \* the external processes started by this call
    run_process,          \* how `swift run agently-runner` ended
    run_ret,              \* the TaskResult given back to the caller
    \* ---- PromptTemplate.format called directly
    prompt_in,            \* the template and the keyword arguments passed
    prompt_out,           \* what format gave back, and the template afterwards
    \* ---- AgentlyPlanner._clean_json_response and json.loads on a response
    repair_in,            \* the object the model meant and the text it wrote
    repair_out,           \* the cleaned text and what json.loads made of it
    \* ---- AgentlyPlanner._find_relevant_elements called directly
    relevant_in,          \* the elements of the ui_graph and the task passed
    relevant_out,         \* the relevant elements returned
    \* ---- AgentlyAgent
    agent,                \* the fields of the AgentlyAgent
    agent_last,           \* the last call: its kind, what it returned, the agent before it
    agent_returned,       \* the actions returned by the predict calls since the last reset
    \* ---- TaskRunner.run_task_suite
    suite_pc,             \* where run_task_suite is
    suite_tasks,          \* the tasks passed
    suite_i,              \* the index of the task of the loop
    suite_results,        \* the results list
    suite_interrupted,    \* whether the user interrupted the suite
    suite_ret,            \* the list returned
    \* ---- TaskLoader
    task_files,           \* the kind of content of each task file on disk
    task_cache,           \* the paths that are keys of _task_cache
    validate_out,         \* the last validate_task_file call and what it gave back
    \* ---- MemoryStore
    db_rows,              \* the rows of the ui_snapshots table, in insertion order
    db_seq,               \* the largest id the table has given out
    store_out             \* the last store_ui_snapshot call and what it gave back

verifier_vars ==
    <<pc, args, screenshot_path, files, verification_result, ret, trace, model_reply,
      analysis_reply>>
policy_vars == <<policy_in, policy_out>>
planner_vars ==
    <<plan_pc, plan_entry, plan_op, plan_context, plan_response, plan_llm, plan_ret,
      select_args, select_ret>>
logger_vars ==
    <<log_dir, conversation_counter, log_files, log_in, log_out, planner_instances>>
runner_vars == <<run_pc, run_task_in, run_clock, run_trace, run_process, run_ret>>
prompt_vars == <<prompt_in, prompt_out>>
repair_vars == <<repair_in, repair_out>>
relevant_vars == <<relevant_in, relevant_out>>
agent_vars == <<agent, agent_last, agent_returned>>
suite_vars == <<suite_pc, suite_tasks, suite_i, suite_results, suite_interrupted, suite_ret>>
loader_vars == <<task_files, task_cache, validate_out>>
store_vars == <<db_rows, db_seq, store_out>>
vars ==
    <<verifier_vars, policy_vars, planner_vars, logger_vars, runner_vars, prompt_vars,
      repair_vars, relevant_vars,
      agent_vars,
      suite_vars,
      loader_vars,
      store_vars>>

\* the variables no method of the component touches
outside_verifier ==
    <<policy_vars, planner_vars, logger_vars, runner_vars, prompt_vars, repair_vars,
      relevant_vars,
      agent_vars,
      suite_vars,
      loader_vars,
      store_vars>>
outside_policy ==
    <<verifier_vars, planner_vars, logger_vars, runner_vars, prompt_vars, repair_vars,
      relevant_vars,
      agent_vars,
      suite_vars,
      loader_vars,
      store_vars>>
\* the planner owns its logger
outside_planner ==
    <<verifier_vars, policy_vars, runner_vars, prompt_vars, repair_vars,
      relevant_vars,
      agent_vars,
      suite_vars,
      loader_vars,
      store_vars>>
outside_prompts ==
    <<verifier_vars, policy_vars, planner_vars, logger_vars, runner_vars, repair_vars,
      relevant_vars,
      agent_vars,
      suite_vars,
      loader_vars,
      store_vars>>
outside_runner ==
    <<verifier_vars, policy_vars, planner_vars, logger_vars, prompt_vars, repair_vars,
      relevant_vars,
      agent_vars,
      suite_vars,
      loader_vars,
      store_vars>>
outside_repair ==
    <<verifier_vars, policy_vars, planner_vars, logger_vars, runner_vars, prompt_vars,
      relevant_vars,
      agent_vars,
      suite_vars,
      loader_vars,
      store_vars>>
outside_relevant ==
    <<verifier_vars, policy_vars, planner_vars, logger_vars, runner_vars, prompt_vars,
      repair_vars,
      agent_vars,
      suite_vars,
      loader_vars,
      store_vars>>
outside_agent ==
    <<verifier_vars,
      policy_vars,
      planner_vars,
      logger_vars,
      runner_vars,
      prompt_vars,
      repair_vars,
      relevant_vars,
      suite_vars,
      loader_vars,
      store_vars>>
\* run_task_suite calls run_task
outside_suite ==
    <<verifier_vars, policy_vars, planner_vars, logger_vars, prompt_vars, repair_vars,
      relevant_vars, agent_vars,
      loader_vars,
      store_vars>>
outside_loader ==
    <<verifier_vars,
      policy_vars,
      planner_vars,
      logger_vars,
      runner_vars,
      prompt_vars,
      repair_vars,
      relevant_vars,
      agent_vars,
      suite_vars,
      store_vars>>
outside_store ==
    <<verifier_vars,
      policy_vars,
      planner_vars,
      logger_vars,
      runner_vars,
      prompt_vars,
      repair_vars,
      relevant_vars,
      agent_vars,
      suite_vars,
      loader_vars>>

(***************************************************************************)
(* Bounds of the model.                                                    *)
(***************************************************************************)
\* longest completed_actions list passed to verify_step
MaxCompleted == 6

(***************************************************************************)
(* Python / JSON values.                                                   *)
(***************************************************************************)
None == [t |-> "null", v |-> <<>>]
PyBool(b) == [t |-> "bool", v |-> b]
PyNum(n) == [t |-> "num", v |-> n]
\* a str whose characters matter to the code
PyStr(s) == [t |-> "str", v |-> s]
\* a str built by an f-string: its literal parts and interpolated values
PyFmt(parts) == [t |-> "fstr", v |-> parts]
\* a str of which the code reads only whether it is empty
PyText(s) == [t |-> "text", v |-> s]
PyList(l) == [t |-> "list", v |-> l]
PyDict(f) == [t |-> "dict", v |-> f]

\* Python truthiness (bool(x))
Truthy(x) ==
    CASE x.t = "null" -> FALSE
      [] x.t = "bool" -> x.v
      [] x.t = "num" -> x.v # 0
      [] x.t = "str" -> Len(x.v) > 0
      [] x.t = "text" -> x.v # ""
      [] x.t = "fstr" -> TRUE
      [] x.t = "list" -> Len(x.v) > 0
      [] x.t = "dict" -> DOMAIN x.v # {}

\* dict.get(key, default)
DictGet(d, key, default) == IF key \in DOMAIN d.v THEN d.v[key] ELSE default

(***************************************************************************)
(* str operations used by the code.                                        *)
(***************************************************************************)
\* str.lower() on one character
LowerChar(c) ==
    CASE c = "A" -> "a" [] c = "B" -> "b" [] c = "C" -> "c" [] c = "D" -> "d"
      [] c = "E" -> "e" [] c = "F" -> "f" [] c = "G" -> "g" [] c = "H" -> "h"
      [] c = "I" -> "i" [] c = "J" -> "j" [] c = "K" -> "k" [] c = "L" -> "l"
      [] c = "M" -> "m" [] c = "N" -> "n" [] c = "O" -> "o" [] c = "P" -> "p"
      [] c = "Q" -> "q" [] c = "R" -> "r" [] c = "S" -> "s" [] c = "T" -> "t"
      [] c = "U" -> "u" [] c = "V" -> "v" [] c = "W" -> "w" [] c = "X" -> "x"
      [] c = "Y" -> "y" [] c = "Z" -> "z" [] OTHER -> c

\* str.lower()
Lower(s) == [i \in 1..Len(s) |-> LowerChar(s[i])]

\* `sub in s` for two str
Contains(s, sub) ==
    \E i \in 0..(Len(s) - Len(sub)) : SubSeq(s, i + 1, i + Len(sub)) = sub

\* s.strip() is the empty str
StripIsEmpty(s) == \A i \in 1..Len(s) : s[i] = " "

(***************************************************************************)
(* StepVerifier.should_retry_step  (verifier.py 350-397)                   *)
(***************************************************************************)
\* the keyword list of the incompleteness rule
IncompleteKeywords ==
    { <<"i","n","c","o","m","p","l","e","t","e">>, <<"n","o","t"," ","f","i","n","i","s","h","e","d">>, <<"d","i","d","n","'","t"," ","c","o","m","p","l","e","t","e">>, <<"u","n","f","i","n","i","s","h","e","d">>,
      <<"n","o","t"," ","d","o","n","e">>, <<"s","t","i","l","l"," ","n","e","e","d","s">>, <<"r","e","q","u","i","r","e","s">>, <<"m","i","s","s","i","n","g">>, <<"n","o","t"," ","s","e","n","t">>,
      <<"n","o","t"," ","t","y","p","e","d">>, <<"n","o","t"," ","c","l","i","c","k","e","d">>, <<"n","o","t"," ","f","o","c","u","s","e","d">>, <<"n","o"," ","c","l","e","a","r"," ","i","n","d","i","c","a","t","o","r">> }

\* confidence thresholds of the policy, in hundredths
LowConfidence == 30
ModerateConfidence == 80

ReasonSuccess == <<"Step verified successfully">>
ReasonLow(c) == <<"Low confidence (", c, ") - step likely failed">>
ReasonModerate(c) == <<"Moderate confidence (", c, ") - step may have failed">>
ReasonError == <<"Error detected in verification">>
ReasonNotFound == <<"Expected element not found">>
ReasonFailed == <<"Step explicitly marked as failed">>
ReasonIncomplete == <<"Task appears incomplete based on verification">>
ReasonSuggest == <<"LLM suggests retry action">>
ReasonDefault == <<"Step verification failed - retrying for completion">>

\* the test of lines 391-393: the response suggests a next action to "try"
SuggestsRetry(llm_response) ==
    /\ Truthy(llm_response)
    /\ "suggested_next_action" \in DOMAIN llm_response.v
    /\ LET suggested_action == DictGet(llm_response, "suggested_next_action", PyStr(<<>>))
       IN  /\ Truthy(suggested_action)
           /\ ~StripIsEmpty(suggested_action.v)
           /\ Contains(Lower(suggested_action.v), <<"t","r","y">>)

should_retry_step_no_default(result, max_retries) ==
    LET reasoning == Lower(result.reasoning.v)
    IN  IF result.success THEN <<FALSE, ReasonSuccess>>
        ELSE IF result.confidence < LowConfidence
            THEN <<TRUE, ReasonLow(result.confidence)>>
        ELSE IF result.confidence < ModerateConfidence
            THEN <<TRUE, ReasonModerate(result.confidence)>>
        ELSE IF Contains(reasoning, <<"e","r","r","o","r">>) THEN <<TRUE, ReasonError>>
        ELSE IF Contains(reasoning, <<"n","o","t"," ","f","o","u","n","d">>) THEN <<TRUE, ReasonNotFound>>
        ELSE IF Contains(reasoning, <<"f","a","i","l","e","d">>) THEN <<TRUE, ReasonFailed>>
        ELSE IF \E keyword \in IncompleteKeywords : Contains(reasoning, keyword)
            THEN <<TRUE, ReasonIncomplete>>
        ELSE IF SuggestsRetry(result.llm_response)
            THEN <<TRUE, ReasonSuggest>>
        ELSE <<FALSE, ReasonDefault>>

should_retry_step_confidence_first(result, max_retries) ==
    LET reasoning == Lower(result.reasoning.v)
    IN  IF result.confidence < LowConfidence
            THEN <<TRUE, ReasonLow(result.confidence)>>
        ELSE IF result.success THEN <<FALSE, ReasonSuccess>>
        ELSE <<TRUE, ReasonDefault>>

should_retry_step_keywords_first(result, max_retries) ==
    LET reasoning == Lower(result.reasoning.v)
    IN  IF result.success THEN <<FALSE, ReasonSuccess>>
        ELSE IF Contains(reasoning, <<"e","r","r","o","r">>) THEN <<TRUE, ReasonError>>
        ELSE IF result.confidence < LowConfidence
            THEN <<TRUE, ReasonLow(result.confidence)>>
        ELSE IF result.confidence < ModerateConfidence
            THEN <<TRUE, ReasonModerate(result.confidence)>>
        ELSE IF Contains(reasoning, <<"n","o","t"," ","f","o","u","n","d">>) THEN <<TRUE, ReasonNotFound>>
        ELSE IF Contains(reasoning, <<"f","a","i","l","e","d">>) THEN <<TRUE, ReasonFailed>>
        ELSE IF \E keyword \in IncompleteKeywords : Contains(reasoning, keyword)
            THEN <<TRUE, ReasonIncomplete>>
        ELSE IF SuggestsRetry(result.llm_response)
            THEN <<TRUE, ReasonSuggest>>
        ELSE <<TRUE, ReasonDefault>>

should_retry_step_heeds_report(result, max_retries) ==
    LET reasoning == Lower(result.reasoning.v)
    IN  IF result.plan_update.t = "dict" /\ max_retries > 0
            THEN <<TRUE, <<"S","t","a","t","e"," ","a","n","a","l","y","s","i","s"," ","a","s","k","s"," ","f","o","r"," ","a"," ","n","e","w"," ","p","l","a","n">>>>
        ELSE IF result.success THEN <<FALSE, ReasonSuccess>>
        ELSE IF result.confidence < LowConfidence
            THEN <<TRUE, ReasonLow(result.confidence)>>
        ELSE IF result.confidence < ModerateConfidence
            THEN <<TRUE, ReasonModerate(result.confidence)>>
        ELSE IF Contains(reasoning, <<"e","r","r","o","r">>) THEN <<TRUE, ReasonError>>
        ELSE IF Contains(reasoning, <<"n","o","t"," ","f","o","u","n","d">>) THEN <<TRUE, ReasonNotFound>>
        ELSE IF Contains(reasoning, <<"f","a","i","l","e","d">>) THEN <<TRUE, ReasonFailed>>
        ELSE IF \E keyword \in IncompleteKeywords : Contains(reasoning, keyword)
            THEN <<TRUE, ReasonIncomplete>>
        ELSE IF SuggestsRetry(result.llm_response)
            THEN <<TRUE, ReasonSuggest>>
        ELSE <<TRUE, ReasonDefault>>

should_retry_step(result, max_retries) ==
    LET reasoning == Lower(result.reasoning.v)
    IN  IF result.success THEN <<FALSE, ReasonSuccess>>
        ELSE IF result.confidence < LowConfidence
            THEN <<TRUE, ReasonLow(result.confidence)>>
        ELSE IF result.confidence < ModerateConfidence
            THEN <<TRUE, ReasonModerate(result.confidence)>>
        ELSE IF Contains(reasoning, <<"e","r","r","o","r">>) THEN <<TRUE, ReasonError>>
        ELSE IF Contains(reasoning, <<"n","o","t"," ","f","o","u","n","d">>) THEN <<TRUE, ReasonNotFound>>
        ELSE IF Contains(reasoning, <<"f","a","i","l","e","d">>) THEN <<TRUE, ReasonFailed>>
        ELSE IF \E keyword \in IncompleteKeywords : Contains(reasoning, keyword)
            THEN <<TRUE, ReasonIncomplete>>
        ELSE IF SuggestsRetry(result.llm_response)
            THEN <<TRUE, ReasonSuggest>>
        ELSE <<TRUE, ReasonDefault>>

(***************************************************************************)
(* VerificationResult  (verifier.py 21-33).  ui_graph_path is always None  *)
(* and validation_prompt is the rendered prompt; neither is read again.    *)
(***************************************************************************)
VerificationResult(success, confidence, reasoning, llm_response) ==
    [ success |-> success,
      confidence |-> confidence,
      reasoning |-> reasoning,
      screenshot_path |-> None,
      llm_response |-> llm_response,
      should_retry |-> FALSE,
      retry_reason |-> <<"">>,
      plan_update |-> None ]

(***************************************************************************)
(* should_retry_step called on its own, as verify_step.py main does and as *)
(* any caller holding a VerificationResult may.                            *)
(***************************************************************************)
\* reasoning texts: none of the keywords, each rule's keyword, mixed case,
\* a keyword inside a longer word, several keywords at once
PolicyReasonings ==
    { <<"l","o","o","k","s"," ","f","i","n","e">>, <<>>, <<"A","n"," ","E","r","r","o","r"," ","o","c","c","u","r","r","e","d">>, <<"b","u","t","t","o","n"," ","n","o","t"," ","f","o","u","n","d">>,
      <<"t","h","e"," ","s","t","e","p"," ","F","A","I","L","E","D">>, <<"n","o"," ","t","e","r","r","o","r"," ","h","e","r","e">>, <<"e","r","r","o","r",":"," ","e","l","e","m","e","n","t"," ","n","o","t"," ","f","o","u","n","d",","," ","s","t","e","p"," ","f","a","i","l","e","d">>,
      <<"t","a","s","k"," ","i","n","c","o","m","p","l","e","t","e">>, <<"n","o","t"," ","f","i","n","i","s","h","e","d"," ","y","e","t">>, <<"d","i","d","n","'","t"," ","c","o","m","p","l","e","t","e">>, <<"u","n","f","i","n","i","s","h","e","d">>,
      <<"n","o","t"," ","d","o","n","e">>, <<"s","t","i","l","l"," ","n","e","e","d","s"," ","i","n","p","u","t">>, <<"r","e","q","u","i","r","e","s"," ","l","o","g","i","n">>, <<"m","i","s","s","i","n","g"," ","f","i","e","l","d">>,
      <<"m","e","s","s","a","g","e"," ","n","o","t"," ","s","e","n","t">>, <<"t","e","x","t"," ","n","o","t"," ","t","y","p","e","d">>, <<"n","o","t"," ","c","l","i","c","k","e","d">>, <<"n","o","t"," ","f","o","c","u","s","e","d">>,
      <<"n","o"," ","c","l","e","a","r"," ","i","n","d","i","c","a","t","o","r">> }

\* confidences in hundredths, on both sides of each threshold
PolicyConfidences == {0, 20, 29, 30, 50, 79, 80, 95, 100}

\* llm_response values: absent, empty, without and with a suggestion
PolicyResponses ==
    { None, PyDict(<<>>), PyDict([success |-> PyBool(FALSE)]) }
    \cup { PyDict([suggested_next_action |-> s]) :
             s \in { None, PyStr(<<>>), PyStr(<<" "," ">>), PyStr(<<"c","l","i","c","k"," ","t","h","e"," ","b","u","t","t","o","n">>),
                     PyStr(<<"T","r","y"," ","a","g","a","i","n">>), PyStr(<<"r","e","t","r","y"," ","t","h","e"," ","s","t","e","p">>) } }

\* a State Analyzer report as the model may return it
SampleReport ==
    PyDict([ task_completed |-> PyBool(FALSE), plan_update_needed |-> PyBool(TRUE) ])

PolicyInputs ==
    { [ VerificationResult(s, c, PyStr(r), l) EXCEPT
            !.plan_update = p, !.screenshot_path = sp ] :
        s \in BOOLEAN, c \in PolicyConfidences, r \in PolicyReasonings,
        l \in PolicyResponses, p \in {None, SampleReport},
        sp \in {None, PyText("verification_screenshot.jpg")} }

NotCalled == [called |-> FALSE, should_retry |-> FALSE, reason |-> <<"">>]

PolicyCalls ==
    { [verification_result |-> vr, max_retries |-> m] :
        vr \in PolicyInputs, m \in {1, 3} }

\* verifier.should_retry_step(result)   (verify_step.py 113)
ShouldRetryStep ==
    /\ ~policy_out.called
    /\ LET r == should_retry_step(policy_in.verification_result, policy_in.max_retries)
       IN  policy_out' = [called |-> TRUE, should_retry |-> r[1], reason |-> r[2]]
    /\ UNCHANGED <<policy_in, outside_policy>>

(***************************************************************************)
(* StepVerifier.verify_step  (verifier.py 44-136)                          *)
(***************************************************************************)
\* the simple actions of line 71
simple_actions == { <<"w","a","i","t">>, <<"d","e","l","a","y">>, <<"s","l","e","e","p">> }

IsSimpleAction_exact(action_type) ==
    Lower(action_type) \in simple_actions

IsSimpleAction_wait_only(action_type) ==
    Contains(Lower(action_type), <<"w","a","i","t">>)

\* line 72: any(simple_action in action_type.lower() ...)
IsSimpleAction(action_type) ==
    \E simple_action \in simple_actions : Contains(Lower(action_type), simple_action)

\* the result of the fast path, lines 74-83
SimpleActionResult ==
    [ VerificationResult(TRUE, 100,
                         PyStr(<<"S","i","m","p","l","e"," ","a","c","t","i","o","n"," ","-"," ","n","o"," ","v","e","r","i","f","i","c","a","t","i","o","n"," ","n","e","e","d","e","d">>), None)
        EXCEPT !.screenshot_path = PyText("") ]

\* ---- _resize_screenshot (verifier.py 172-203) --------------------------
TempFile == "temp_screenshot.jpg"
FinalFile == "verification_screenshot.jpg"

\* what can happen inside the try block, and to the fallback copy
ResizeOutcomes == {"already_small", "resized", "error_copied", "error_copy_failed"}

\* writes the final file from the temp file; raised = an exception left it
_resize_screenshot(fs, outcome) ==
    CASE outcome = "already_small" ->
            [files |-> fs \cup {[name |-> FinalFile, content |-> "compressed"]},
             raised |-> FALSE, events |-> <<"Image.save">>]
      [] outcome = "resized" ->
            [files |-> fs \cup {[name |-> FinalFile, content |-> "resized"]},
             raised |-> FALSE, events |-> <<"Image.resize", "Image.save">>]
      [] outcome = "error_copied" ->
            \* line 203: the original is copied unchanged
            [files |-> fs \cup {[name |-> FinalFile, content |-> "original"]},
             raised |-> FALSE, events |-> <<"shutil.copy2">>]
      [] outcome = "error_copy_failed" ->
            [files |-> fs, raised |-> TRUE, events |-> <<"shutil.copy2">>]

\* ---- _capture_screenshot (verifier.py 138-170) -------------------------
\* exception: makedirs or subprocess.run raised; failed: returncode # 0
CaptureOutcomes == {"exception", "failed", "captured"}

_capture_screenshot_abort_on_resize(outcome, resize_outcome) ==
    CASE outcome = "exception" ->
            [path |-> PyText(""), files |-> {}, events |-> <<"_capture_screenshot">>]
      [] outcome = "failed" ->
            [path |-> PyText(""), files |-> {},
             events |-> <<"_capture_screenshot", "screencapture">>]
      [] outcome = "captured" ->
            LET temp == {[name |-> TempFile, content |-> "original"]}
                r == _resize_screenshot(temp, resize_outcome)
                ev == <<"_capture_screenshot", "screencapture">> \o r.events
            IN  IF resize_outcome \in {"error_copied", "error_copy_failed"}
                THEN [path |-> PyText(""), files |-> r.files, events |-> ev]
                ELSE [path |-> PyText(FinalFile),
                      files |-> {f \in r.files : f.name # TempFile},
                      events |-> ev]

_capture_screenshot(outcome, resize_outcome) ==
    CASE outcome = "exception" ->
            [path |-> PyText(""), files |-> {}, events |-> <<"_capture_screenshot">>]
      [] outcome = "failed" ->
            [path |-> PyText(""), files |-> {},
             events |-> <<"_capture_screenshot", "screencapture">>]
      [] outcome = "captured" ->
            LET temp == {[name |-> TempFile, content |-> "original"]}
                r == _resize_screenshot(temp, resize_outcome)
                ev == <<"_capture_screenshot", "screencapture">> \o r.events
            IN  IF r.raised
                THEN \* caught at line 168: the temp file is left behind
                     [path |-> PyText(""), files |-> r.files, events |-> ev]
                ELSE \* lines 159-163: temp file removed, final path returned
                     [path |-> PyText(FinalFile),
                      files |-> {f \in r.files : f.name # TempFile},
                      events |-> ev]

\* os.path.exists(path)
Exists(fs, path) == \E f \in fs : f.name = path.v

\* line 291 (and 514): the screenshot is attached as an image part
AttachesImage(path, fs) == Truthy(path) /\ Exists(fs, path)

(***************************************************************************)
(* Model responses.  A chat completion either raises or yields a message    *)
(* content: None, a blank str, a str json.loads rejects, or a str that     *)
(* json.loads parses to a value.                                           *)
(***************************************************************************)
Exc(type, msg) == [type |-> type, msg |-> msg]
NoExc == Exc("", <<>>)

ApiError(e) == [raised |-> TRUE, error |-> e, content |-> None]
Completion(content) == [raised |-> FALSE, error |-> <<>>, content |-> content]
JsonText(value) == [t |-> "json_text", v |-> value]
NonJsonText == [t |-> "non_json_text", v |-> <<>>]

\* `not content or content.strip() == ""`
IsBlank(content) ==
    \/ content.t = "null"
    \/ content.t = "str" /\ StripIsEmpty(content.v)

\* a key the JSON object does not hold
Absent == [t |-> "absent", v |-> <<>>]

\* the JSON object holding the fields that are not Absent
JsonObject(fields) ==
    PyDict([k \in {k \in DOMAIN fields : fields[k] # Absent} |-> fields[k]])

IsDigit(c) == c \in {"0", "1", "2", "3", "4", "5", "6", "7", "8", "9"}

DigitValue(c) ==
    CASE c = "0" -> 0 [] c = "1" -> 1 [] c = "2" -> 2 [] c = "3" -> 3 [] c = "4" -> 4
      [] c = "5" -> 5 [] c = "6" -> 6 [] c = "7" -> 7 [] c = "8" -> 8 [] c = "9" -> 9

\* float(x), in hundredths; a str is converted when it reads d.dd
ToFloat(x) ==
    CASE x.t = "num" -> [ok |-> TRUE, v |-> x.v, error |-> NoExc]
      [] x.t = "bool" -> [ok |-> TRUE, v |-> IF x.v THEN 100 ELSE 0, error |-> NoExc]
      [] x.t = "str" ->
            IF /\ Len(x.v) = 4 /\ IsDigit(x.v[1]) /\ x.v[2] = "."
               /\ IsDigit(x.v[3]) /\ IsDigit(x.v[4])
            THEN [ok |-> TRUE,
                  v |-> 100 * DigitValue(x.v[1]) + 10 * DigitValue(x.v[3]) + DigitValue(x.v[4]),
                  error |-> NoExc]
            ELSE [ok |-> FALSE, v |-> 0,
                  error |-> Exc("ValueError", <<"c","o","u","l","d"," ","n","o","t"," ","c","o","n","v","e","r","t"," ","s","t","r","i","n","g"," ","t","o"," ","f","l","o","a","t">>)]
      [] OTHER -> [ok |-> FALSE, v |-> 0,
                   error |-> Exc("TypeError",
                                 <<"f","l","o","a","t","(",")"," ","a","r","g","u","m","e","n","t"," ","m","u","s","t"," ","b","e"," ","a"," ","s","t","r","i","n","g"," ","o","r"," ","a"," ","r","e","a","l"," ","n","u","m","b","e","r">>)]

(***************************************************************************)
(* StepVerifier._perform_llm_validation  (verifier.py 265-348)             *)
(***************************************************************************)
NoResult == VerificationResult(FALSE, 0, PyStr(<<>>), None)

EmptyResponseError == <<"E","m","p","t","y"," ","r","e","s","p","o","n","s","e"," ","f","r","o","m"," ","L","L","M">>
JsonDecodeError == <<"E","x","p","e","c","t","i","n","g"," ","v","a","l","u","e",":"," ","l","i","n","e"," ","1"," ","c","o","l","u","m","n"," ","1"," ","(","c","h","a","r"," ","0",")">>
NoGetError == <<"o","b","j","e","c","t"," ","h","a","s"," ","n","o"," ","a","t","t","r","i","b","u","t","e"," ","'","g","e","t","'">>
ConnectionError == <<"C","o","n","n","e","c","t","i","o","n"," ","e","r","r","o","r",".">>
FileReadError == <<"P","e","r","m","i","s","s","i","o","n"," ","d","e","n","i","e","d">>

\* the except branch, lines 335-348
ValidationErrorResult(e) ==
    LET reasoning == PyStr(<<"V","e","r","i","f","i","c","a","t","i","o","n"," ","f","a","i","l","e","d"," ","d","u","e"," ","t","o"," ","e","r","r","o","r",":"," ">> \o e)
    IN  VerificationResult(FALSE, 0, reasoning,
            PyDict([ success |-> PyBool(FALSE),
                     confidence |-> PyNum(0),
                     reasoning |-> reasoning,
                     visual_evidence |-> PyText("Error occurred during verification"),
                     suggested_next_action |-> PyStr(<<"R","e","t","r","y"," ","t","h","e"," ","v","e","r","i","f","i","c","a","t","i","o","n"," ","p","r","o","c","e","s","s">>) ]))

\* lines 311-333: the content of a completion turned into a result, or
\* the exception raised on the way
ParseValidation(content) ==
    IF IsBlank(content)
    THEN [raised |-> TRUE, exc |-> Exc("ValueError", EmptyResponseError), result |-> NoResult]
    ELSE IF content.t # "json_text"
    THEN [raised |-> TRUE, exc |-> Exc("JSONDecodeError", JsonDecodeError), result |-> NoResult]
    ELSE LET llm_response == content.v
         IN  IF llm_response.t # "dict"
             THEN [raised |-> TRUE, exc |-> Exc("AttributeError", NoGetError),
                   result |-> NoResult]
             ELSE LET success == DictGet(llm_response, "success", PyBool(FALSE))
                      confidence == ToFloat(DictGet(llm_response, "confidence", PyNum(0)))
                      reasoning == DictGet(llm_response, "reasoning",
                                           PyStr(<<"N","o"," ","r","e","a","s","o","n","i","n","g"," ","p","r","o","v","i","d","e","d">>))
                  IN  IF ~confidence.ok
                      THEN [raised |-> TRUE, exc |-> confidence.error, result |-> NoResult]
                      ELSE [raised |-> FALSE, exc |-> NoExc,
                            result |-> VerificationResult(success.v, confidence.v,
                                                          reasoning, llm_response)]

CaughtByValidation_value_errors_only(e) == e.type \in {"ValueError", "JSONDecodeError"}

\* line 335: except Exception
CaughtByValidation(e) == TRUE

\* the whole call: read_ok is whether the screenshot file could be read.
\* [raised, exc, result, events]
_perform_llm_validation(path, fs, read_ok, response) ==
    LET attempt ==
            IF AttachesImage(path, fs) /\ ~read_ok
            THEN [raised |-> TRUE, exc |-> Exc("PermissionError", FileReadError),
                  result |-> NoResult]
            ELSE IF response.raised
            THEN [raised |-> TRUE, exc |-> Exc("APIConnectionError", response.error),
                  result |-> NoResult]
            ELSE ParseValidation(response.content)
        events ==
            IF AttachesImage(path, fs) /\ ~read_ok THEN <<>>
            ELSE << IF AttachesImage(path, fs)
                    THEN "chat.completions.create validation text+image"
                    ELSE "chat.completions.create validation text" >>
    IN  IF attempt.raised /\ CaughtByValidation(attempt.exc)
        THEN [raised |-> FALSE, exc |-> NoExc,
              result |-> ValidationErrorResult(attempt.exc.msg), events |-> events]
        ELSE [raised |-> attempt.raised, exc |-> attempt.exc,
              result |-> attempt.result, events |-> events]

(***************************************************************************)
(* StepVerifier.analyze_state_and_suggest_plan / _perform_state_analysis   *)
(* (verifier.py 399-432, 488-560)                                          *)
(***************************************************************************)
DegradedReport_no_update(e) ==
    PyDict([ current_progress |-> PyText("Analysis failed"),
             remaining_work |-> PyText("Unable to determine"),
             task_completed |-> PyBool(FALSE),
             completion_confidence |-> PyNum(0),
             approach_working |-> PyBool(FALSE),
             suggested_next_actions |-> PyList(<<>>),
             plan_update_needed |-> PyBool(FALSE),
             plan_update_reason |-> PyStr(<<>>),
             obstacles |-> PyList(<<PyStr(<<"A","n","a","l","y","s","i","s"," ","e","r","r","o","r">>)>>),
             confidence |-> PyNum(0) ])

\* the except branch, lines 547-560
DegradedReport(e) ==
    PyDict([ current_progress |-> PyText("Analysis failed"),
             remaining_work |-> PyText("Unable to determine"),
             task_completed |-> PyBool(FALSE),
             completion_confidence |-> PyNum(0),
             approach_working |-> PyBool(FALSE),
             suggested_next_actions |-> PyList(<<>>),
             plan_update_needed |-> PyBool(TRUE),
             plan_update_reason |-> PyStr(<<"A","n","a","l","y","s","i","s"," ","f","a","i","l","e","d",":"," ">> \o e),
             obstacles |-> PyList(<<PyStr(<<"A","n","a","l","y","s","i","s"," ","e","r","r","o","r">>)>>),
             confidence |-> PyNum(0) ])

_perform_state_analysis(path, fs, read_ok, response) ==
    IF AttachesImage(path, fs) /\ ~read_ok
    THEN [report |-> DegradedReport(FileReadError), events |-> <<>>]
    ELSE [report |->
            IF response.raised THEN DegradedReport(response.error)
            ELSE IF IsBlank(response.content) THEN DegradedReport(EmptyResponseError)
            ELSE IF response.content.t # "json_text" THEN DegradedReport(JsonDecodeError)
            ELSE IF response.content.v.t # "dict" THEN DegradedReport(NoGetError)
            ELSE response.content.v,
          events |-> << IF AttachesImage(path, fs)
                        THEN "chat.completions.create analysis text+image"
                        ELSE "chat.completions.create analysis text" >>]

analyze_state_and_suggest_plan(path, fs, read_ok, response) ==
    LET r == _perform_state_analysis(path, fs, read_ok, response)
    IN  [report |-> r.report,
         events |-> <<"analyze_state_and_suggest_plan">> \o r.events]

(***************************************************************************)
(* The calls made on a verifier and what the outside world answers.        *)
(***************************************************************************)
\* action_type values: the simple ones, other case, a simple word inside a
\* longer name, and ordinary actions
ActionTypes ==
    { <<"w","a","i","t">>, <<"d","e","l","a","y">>, <<"s","l","e","e","p">>, <<"D","e","l","a","y">>, <<"a","w","a","i","t","_","c","l","i","c","k">>, <<"c","l","i","c","k">>, <<"k","e","y","_","p","r","e","s","s">> }

UserTasks == { PyText(""), PyText("send a message") }

\* completed_actions: None (the default) or a list of up to MaxCompleted
\* more completed actions than this escalate to the State Analyzer (line 109)
AnalysisThreshold == 5

\* lengths of completed_actions: empty, short, and around the threshold
CompletedLengths == {0, 1} \cup (AnalysisThreshold..MaxCompleted)

\* completed_actions: None (the default) or a list
CompletedActionLists ==
    {None} \cup { PyList([i \in 1..n |-> i]) : n \in CompletedLengths }

ValidationJsonObjects ==
    { JsonObject([ success |-> s, confidence |-> c, reasoning |-> r,
                   visual_evidence |-> PyText("a window"),
                   suggested_next_action |-> a ]) :
        s \in {Absent, PyBool(TRUE), PyBool(FALSE)},
        c \in {Absent, None, PyStr(<<"h","i","g","h">>), PyStr(<<"0",".","9","5">>),
               PyNum(20), PyNum(50), PyNum(90)},
        r \in {Absent, PyStr(<<"l","o","o","k","s"," ","f","i","n","e">>), PyStr(<<"A","n"," ","E","r","r","o","r"," ","o","c","c","u","r","r","e","d">>)},
        a \in {Absent, PyStr(<<"t","r","y"," ","a","g","a","i","n">>)} }

ValidationResponses ==
    { ApiError(ConnectionError), Completion(None), Completion(PyStr(<<>>)),
      Completion(PyStr(<<" "," ">>)), Completion(NonJsonText),
      Completion(JsonText(PyList(<<>>))) }
    \cup { Completion(JsonText(o)) : o \in ValidationJsonObjects }

AnalysisResponses ==
    { ApiError(ConnectionError), Completion(None), Completion(PyStr(<<" "," ">>)),
      Completion(NonJsonText), Completion(JsonText(None)),
      Completion(JsonText(SampleReport)) }

\* reading the screenshot file can fail only when it is read
ReadOutcomes(path, fs) == IF AttachesImage(path, fs) THEN BOOLEAN ELSE {TRUE}

NoArgs == [action_type |-> <<>>, user_task |-> PyText(""), completed_actions |-> None]
NoReturn == [kind |-> "none", value |-> NoResult, exc |-> NoExc]
Returned(result) == [kind |-> "returned", value |-> result, exc |-> NoExc]
Raised(e) == [kind |-> "raised", value |-> NoResult, exc |-> e]

NoReply == [read_ok |-> TRUE, response |-> Completion([t |-> "unset", v |-> <<>>])]

\* verify_step is entered, lines 67-83
VerifyStep ==
    /\ pc = "idle"
    /\ \E action_type \in ActionTypes, user_task \in UserTasks,
          completed_actions \in CompletedActionLists :
          args' = [action_type |-> action_type, user_task |-> user_task,
                   completed_actions |-> completed_actions]
    /\ screenshot_path' = None
    /\ files' = {}
    /\ verification_result' = NoResult
    /\ trace' = <<>>
    /\ model_reply' = NoReply
    /\ analysis_reply' = NoReply
    /\ IF IsSimpleAction(args'.action_type)
       THEN pc' = "done" /\ ret' = Returned(SimpleActionResult)
       ELSE pc' = "capture" /\ ret' = NoReturn
    /\ UNCHANGED <<outside_verifier>>

\* the caller has the result; the verifier keeps nothing of the call
Return ==
    /\ pc = "done"
    /\ pc' = "idle"
    /\ args' = NoArgs
    /\ screenshot_path' = None
    /\ files' = {}
    /\ verification_result' = NoResult
    /\ ret' = NoReturn
    /\ trace' = <<>>
    /\ model_reply' = NoReply
    /\ analysis_reply' = NoReply
    /\ UNCHANGED <<outside_verifier>>

\* line 87
CaptureScreenshot ==
    /\ pc = "capture"
    /\ \E outcome \in CaptureOutcomes, resize_outcome \in ResizeOutcomes :
          LET c == _capture_screenshot(outcome, resize_outcome)
          IN  /\ screenshot_path' = c.path
              /\ files' = c.files
              /\ trace' = trace \o c.events
    /\ pc' = "validate"
    /\ UNCHANGED <<args, verification_result, ret, model_reply, analysis_reply, outside_verifier>>

\* lines 93-103
PerformLLMValidation ==
    /\ pc = "validate"
    /\ \E read_ok \in ReadOutcomes(screenshot_path, files), response \in ValidationResponses :
          LET v == _perform_llm_validation(screenshot_path, files, read_ok, response)
          IN  /\ model_reply' = [read_ok |-> read_ok, response |-> response]
              /\ verification_result' = v.result
              /\ trace' = trace \o v.events
              /\ IF v.raised
                 THEN pc' = "done" /\ ret' = Raised(v.exc)
                 ELSE pc' = "analysis" /\ ret' = ret
    /\ UNCHANGED <<args, screenshot_path, files, analysis_reply, outside_verifier>>

NeedsStateAnalysis_only_on_failure(a, result) ==
    /\ Truthy(a.user_task)
    /\ Truthy(a.completed_actions)
    /\ ~result.success

\* the condition of line 109
NeedsStateAnalysis(a, result) ==
    /\ Truthy(a.user_task)
    /\ Truthy(a.completed_actions)
    /\ \/ ~result.success
       \/ Len(a.completed_actions.v) > AnalysisThreshold

\* lines 122-136: the result is completed, the Retry Policy applied
FinishVerifyStep(plan_update) ==
    LET result == [verification_result EXCEPT
                       !.screenshot_path = screenshot_path,
                       !.plan_update = plan_update]
        decision == should_retry_step(result, 3)
    IN  /\ verification_result' = [result EXCEPT !.should_retry = decision[1],
                                                 !.retry_reason = decision[2]]
        /\ ret' = Returned(verification_result')
        /\ pc' = "done"

\* lines 109-116, then 122-136
StateAnalysis ==
    /\ pc = "analysis"
    /\ NeedsStateAnalysis(args, verification_result)
    /\ \E read_ok \in ReadOutcomes(screenshot_path, files), response \in AnalysisResponses :
          LET a == analyze_state_and_suggest_plan(screenshot_path, files, read_ok, response)
          IN  /\ analysis_reply' = [read_ok |-> read_ok, response |-> response]
              /\ trace' = trace \o a.events
              /\ FinishVerifyStep(a.report)
    /\ UNCHANGED <<args, screenshot_path, files, model_reply, outside_verifier>>

\* lines 119-120, then 122-136
SkipStateAnalysis ==
    /\ pc = "analysis"
    /\ ~NeedsStateAnalysis(args, verification_result)
    /\ FinishVerifyStep(None)
    /\ UNCHANGED <<args, screenshot_path, files, trace, model_reply, analysis_reply, outside_verifier>>

(***************************************************************************)
(* PromptTemplate  (prompts.py 9-22) and the templates of SystemPrompts    *)
(* and TaskPrompts.  A template is the sequence of its parts: literal      *)
(* text (abridged between the placeholders), {name} placeholders and the   *)
(* escaped braces {{ and }}.                                               *)
(***************************************************************************)
Lit(text) == [k |-> "lit", v |-> text]
Var(name) == [k |-> "var", v |-> name]
Esc(brace) == [k |-> "esc", v |-> brace]

PromptTemplate(template, required_variables) ==
    [template |-> template, required_variables |-> required_variables]

\* SystemPrompts.MAIN_SYSTEM, lines 28-77
MAIN_SYSTEM ==
    PromptTemplate(
        << Lit(<<"Y","o","u"," ","a","r","e"," ","A","g","e","n","t","l","y",","," ","a","n"," ","A","I"," ","a","g","e","n","t"," ","t","h","a","t"," ","c","o","n","t","r","o","l","s"," ","m","a","c","O","S"," ","a","p","p","l","i","c","a","t","i","o","n","s"," ">>),
           Lit(<<"t","h","r","o","u","g","h"," ","a","c","c","e","s","s","i","b","i","l","i","t","y"," ","A","P","I","s","."," ","R","e","s","p","o","n","d"," ","w","i","t","h"," ","O","N","L","Y"," ","v","a","l","i","d"," ","J","S","O","N">>) >>,
        << >>)

\* SystemPrompts.TASK_FOCUSED, lines 79-93
TASK_FOCUSED ==
    PromptTemplate(
        << Lit(<<"Y","o","u"," ","a","r","e"," ","e","x","e","c","u","t","i","n","g"," ","a"," ","s","p","e","c","i","f","i","c"," ","t","a","s","k",":"," ">>), Var(<<"t","a","s","k","_","d","e","s","c","r","i","p","t","i","o","n">>),
           Lit(<<" ","C","u","r","r","e","n","t"," ","a","p","p","l","i","c","a","t","i","o","n",":"," ">>), Var(<<"a","c","t","i","v","e","_","a","p","p">>),
           Lit(<<" ","A","v","a","i","l","a","b","l","e"," ","U","I"," ","e","l","e","m","e","n","t","s",":"," ">>), Var(<<"e","l","e","m","e","n","t","_","c","o","u","n","t">>),
           Lit(<<" ","e","l","e","m","e","n","t","s"," ","C","u","r","r","e","n","t"," ","c","o","n","t","e","x","t",":"," ">>), Var(<<"c","o","n","t","e","x","t">>) >>,
        << <<"t","a","s","k","_","d","e","s","c","r","i","p","t","i","o","n">>, <<"a","c","t","i","v","e","_","a","p","p">>, <<"e","l","e","m","e","n","t","_","c","o","u","n","t">>, <<"c","o","n","t","e","x","t">> >>)

\* TaskPrompts.PLAN_GENERATION, lines 99-145
PLAN_GENERATION ==
    PromptTemplate(
        << Lit(<<"T","a","s","k",":"," ">>), Var(<<"t","a","s","k">>),
           Lit(<<" ","U","I"," ","G","r","a","p","h"," ","A","n","a","l","y","s","i","s",":"," ">>), Var(<<"u","i","_","g","r","a","p","h","_","s","u","m","m","a","r","y">>),
           Lit(<<" ","A","v","a","i","l","a","b","l","e"," ","e","l","e","m","e","n","t","s"," ","o","f"," ","i","n","t","e","r","e","s","t",":"," ">>), Var(<<"r","e","l","e","v","a","n","t","_","e","l","e","m","e","n","t","s">>),
           Lit(<<" ","R","e","s","p","o","n","d"," ","w","i","t","h"," ","a"," ","J","S","O","N"," ","o","b","j","e","c","t",":"," ">>), Esc(<<"{">>),
           Lit(<<" ","r","e","a","s","o","n","i","n","g",":"," ",","," ","a","c","t","i","o","n","s",":"," ","[","]",","," ","c","o","n","f","i","d","e","n","c","e",":"," ","0",".","8","5"," ">>), Esc(<<"}">>),
           Lit(<<" ","I","M","P","O","R","T","A","N","T",":"," ","U","s","e"," ","c","o","m","p","u","t","e","r","_","1","3"," ","a","c","t","i","o","n"," ","f","o","r","m","a","t"," ","f","o","r"," ","a","l","l"," ","a","c","t","i","o","n","s",".">>) >>,
        << <<"t","a","s","k">>, <<"u","i","_","g","r","a","p","h","_","s","u","m","m","a","r","y">>, <<"r","e","l","e","v","a","n","t","_","e","l","e","m","e","n","t","s">> >>)

\* TaskPrompts.ELEMENT_SELECTION, lines 147-169
ELEMENT_SELECTION ==
    PromptTemplate(
        << Lit(<<"F","i","n","d"," ","t","h","e"," ","b","e","s","t"," ","U","I"," ","e","l","e","m","e","n","t"," ","f","o","r",":"," ">>), Var(<<"i","n","t","e","n","t">>),
           Lit(<<" ","A","v","a","i","l","a","b","l","e"," ","e","l","e","m","e","n","t","s",":"," ">>), Var(<<"e","l","e","m","e","n","t","s">>),
           Lit(<<" ","R","e","s","p","o","n","s","e"," ","f","o","r","m","a","t",":"," ">>), Esc(<<"{">>),
           Lit(<<" ","e","l","e","m","e","n","t","_","i","d",":"," ","s","e","l","e","c","t","e","d","_","i","d","_","o","r","_","n","u","l","l",","," ","r","e","a","s","o","n","i","n","g",":"," ",","," ","c","o","n","f","i","d","e","n","c","e",":"," ","0",".","9"," ">>),
           Esc(<<"}">>) >>,
        << <<"i","n","t","e","n","t">>, <<"e","l","e","m","e","n","t","s">> >>)

\* TaskPrompts.ERROR_RECOVERY, lines 171-216
ERROR_RECOVERY ==
    PromptTemplate(
        << Lit(<<"A","c","t","i","o","n"," ","f","a","i","l","e","d",":"," ">>), Var(<<"f","a","i","l","e","d","_","a","c","t","i","o","n">>),
           Lit(<<" ","E","r","r","o","r",":"," ">>), Var(<<"e","r","r","o","r","_","m","e","s","s","a","g","e">>),
           Lit(<<" ","C","u","r","r","e","n","t"," ","U","I"," ","s","t","a","t","e",":"," ">>), Var(<<"c","u","r","r","e","n","t","_","u","i","_","s","t","a","t","e">>),
           Lit(<<" ","A","v","a","i","l","a","b","l","e"," ","i","n","t","e","r","a","c","t","i","v","e"," ","e","l","e","m","e","n","t","s",":"," ">>), Var(<<"a","v","a","i","l","a","b","l","e","_","e","l","e","m","e","n","t","s">>),
           Lit(<<" ","O","r","i","g","i","n","a","l"," ","t","a","s","k",":"," ">>), Var(<<"o","r","i","g","i","n","a","l","_","t","a","s","k">>),
           Lit(<<" ","P","r","o","g","r","e","s","s"," ","s","o"," ","f","a","r",":"," ">>), Var(<<"c","o","m","p","l","e","t","e","d","_","a","c","t","i","o","n","s">>),
           Lit(<<" ","R","e","s","p","o","n","s","e"," ","f","o","r","m","a","t",":"," ">>), Esc(<<"{">>),
           Lit(<<" ","r","e","c","o","v","e","r","y","_","s","t","r","a","t","e","g","y",":"," ","b","r","i","e","f","_","d","e","s","c","r","i","p","t","i","o","n",","," ","a","c","t","i","o","n","s",":"," ","[","]",","," ">>),
           Lit(<<"s","h","o","u","l","d","_","r","e","t","r","y","_","o","r","i","g","i","n","a","l",":"," ","f","a","l","s","e"," ">>), Esc(<<"}">>) >>,
        << <<"f","a","i","l","e","d","_","a","c","t","i","o","n">>, <<"e","r","r","o","r","_","m","e","s","s","a","g","e">>, <<"c","u","r","r","e","n","t","_","u","i","_","s","t","a","t","e">>,
           <<"o","r","i","g","i","n","a","l","_","t","a","s","k">>, <<"c","o","m","p","l","e","t","e","d","_","a","c","t","i","o","n","s">>, <<"a","v","a","i","l","a","b","l","e","_","e","l","e","m","e","n","t","s">> >>)

\* the concatenation of a sequence of str
RECURSIVE Join(_)
Join(pieces) ==
    IF pieces = <<>> THEN <<>> ELSE Head(pieces) \o Join(Tail(pieces))

\* the first element of seq that is not in set, as a one-element sequence,
\* or the empty sequence
RECURSIVE FirstNotIn(_, _)
FirstNotIn(seq, set) ==
    IF seq = <<>> THEN <<>>
    ELSE IF Head(seq) \notin set THEN <<Head(seq)>>
    ELSE FirstNotIn(Tail(seq), set)

\* the names of the placeholders of a template, in order
Placeholders(template) ==
    LET idx == {i \in DOMAIN template : template[i].k = "var"}
    IN  [i \in DOMAIN template |-> IF i \in idx THEN <<template[i].v>> ELSE <<>>]

\* str.format(**kwargs) on the template text, line 22: [raised, exc, text]
StrFormat(template, kwargs) ==
    LET missing == FirstNotIn(Join(Placeholders(template)), DOMAIN kwargs)
    IN  IF missing # <<>>
        THEN [raised |-> TRUE, exc |-> Exc("KeyError", missing[1]), text |-> <<>>]
        ELSE [raised |-> FALSE, exc |-> NoExc,
              text |-> Join([i \in DOMAIN template |->
                                IF template[i].k = "var" THEN kwargs[template[i].v]
                                ELSE template[i].v])]

format_unchecked(self, kwargs) ==
    LET f == StrFormat(self.template, kwargs)
    IN  [raised |-> f.raised, exc |-> f.exc, text |-> f.text, self |-> self]

\* PromptTemplate.format, lines 16-22: [raised, exc, text, self]
format(self, kwargs) ==
    LET missing == FirstNotIn(self.required_variables, DOMAIN kwargs)
    IN  IF missing # <<>>
        THEN [raised |-> TRUE,
              exc |-> Exc("ValueError", <<"M","i","s","s","i","n","g"," ","r","e","q","u","i","r","e","d"," ","v","a","r","i","a","b","l","e",":"," ">> \o missing[1]),
              text |-> <<>>, self |-> self]
        ELSE LET f == StrFormat(self.template, kwargs)
             IN  [raised |-> f.raised, exc |-> f.exc, text |-> f.text, self |-> self]

\* the templates the repository defines
PromptTemplates ==
    { MAIN_SYSTEM, TASK_FOCUSED, PLAN_GENERATION, ELEMENT_SELECTION, ERROR_RECOVERY }

\* the value passed for a keyword argument (those of test_planner.py for the
\* task templates)
KwargValue(name) ==
    CASE name = <<"f","a","i","l","e","d","_","a","c","t","i","o","n">> -> <<"t","y","p","e",":"," ","c","l","i","c","k">>
      [] name = <<"e","r","r","o","r","_","m","e","s","s","a","g","e">> -> <<"E","l","e","m","e","n","t"," ","n","o","t"," ","f","o","u","n","d">>
      [] name = <<"c","u","r","r","e","n","t","_","u","i","_","s","t","a","t","e">> -> <<"C","u","r","r","e","n","t"," ","s","t","a","t","e">>
      [] name = <<"o","r","i","g","i","n","a","l","_","t","a","s","k">> -> <<"S","u","b","m","i","t"," ","f","o","r","m">>
      [] name = <<"c","o","m","p","l","e","t","e","d","_","a","c","t","i","o","n","s">> -> <<"[","]">>
      [] name = <<"a","v","a","i","l","a","b","l","e","_","e","l","e","m","e","n","t","s">> -> <<"A","X","B","u","t","t","o","n"," ","l","a","b","e","l",":","'","S","u","b","m","i","t","'",":"," ","b","t","n","1">>
      [] name = <<"t","a","s","k">> -> <<"C","l","i","c","k"," ","b","u","t","t","o","n">>
      [] name = <<"u","i","_","g","r","a","p","h","_","s","u","m","m","a","r","y">> -> <<"T","e","s","t"," ","s","u","m","m","a","r","y">>
      [] name = <<"r","e","l","e","v","a","n","t","_","e","l","e","m","e","n","t","s">> -> <<"[","]">>
      [] name = <<"i","n","t","e","n","t">> -> <<"c","l","i","c","k"," ","s","u","b","m","i","t"," ","b","u","t","t","o","n">>
      [] name = <<"e","l","e","m","e","n","t","s">> -> <<"[","i","d",":"," ","b","t","n","1",","," ","t","i","t","l","e",":"," ","S","u","b","m","i","t","]">>
      [] OTHER -> <<"x">>

Range(seq) == {seq[i] : i \in DOMAIN seq}

\* the keyword arguments of a call: any of the template's placeholders, and
\* possibly one the template does not know
KwargSets(self) ==
    { [name \in names |-> KwargValue(name)] :
        names \in SUBSET (Range(Join(Placeholders(self.template))) \cup {<<"e","x","t","r","a">>}) }

PromptCalls ==
    UNION { { [self |-> t, kwargs |-> kw] : kw \in KwargSets(t) } : t \in PromptTemplates }

NoPromptCall == [self |-> MAIN_SYSTEM, kwargs |-> <<>>]
NotFormatted ==
    [called |-> FALSE, raised |-> FALSE, exc |-> NoExc, text |-> <<>>,
     self |-> MAIN_SYSTEM]

\* template.format(**kwargs) is called
Format ==
    /\ ~prompt_out.called
    /\ LET f == format(prompt_in.self, prompt_in.kwargs)
       IN  prompt_out' = [called |-> TRUE, raised |-> f.raised, exc |-> f.exc,
                          text |-> f.text, self |-> f.self]
    /\ UNCHANGED <<prompt_in, outside_prompts>>

(***************************************************************************)
(* AgentlyPlanner._clean_json_response  (planner.py 74-103), on the        *)
(* characters of the response, and json.loads on the cleaned text.         *)
(***************************************************************************)
Q == "\""
NL == "\n"
Backslash == "\\"
\* the grave accent U+0060, which the tools do not accept inside a string
Tick == "U+0060"
Fence == <<Tick, Tick, Tick>>

\* a character str.strip() removes and \s matches
IsSpace(c) == c \in {" ", "\n", "\t", "\r"}

\* the character at index i, "" past the end
At(s, i) == IF i \in 1..Len(s) THEN s[i] ELSE ""

Min(S) == CHOOSE x \in S : \A y \in S : x <= y
Max(S) == CHOOSE x \in S : \A y \in S : x >= y

\* str.strip()
Strip(s) ==
    LET kept == {i \in 1..Len(s) : ~IsSpace(s[i])}
    IN  IF kept = {} THEN <<>> ELSE SubSeq(s, Min(kept), Max(kept))

StartsWith(s, prefix) == Len(s) >= Len(prefix) /\ SubSeq(s, 1, Len(prefix)) = prefix
EndsWith(s, suffix) ==
    Len(s) >= Len(suffix) /\ SubSeq(s, Len(s) - Len(suffix) + 1, Len(s)) = suffix

\* lines 80-87: the markdown fence is stripped
StripFence(response) ==
    LET s0 == Strip(response)
        s1 == IF StartsWith(s0, Fence \o <<"j","s","o","n">>) THEN SubSeq(s0, 8, Len(s0)) ELSE s0
        s2 == IF StartsWith(s1, Fence) THEN SubSeq(s1, 4, Len(s1)) ELSE s1
        s3 == IF EndsWith(s2, Fence) THEN SubSeq(s2, 1, Len(s2) - 3) ELSE s2
    IN  Strip(s3)

\* the characters of s at the indices of kept, in order
KeepIndices(s, kept) ==
    [n \in 1..Cardinality(kept) |->
        s[CHOOSE i \in kept : Cardinality({j \in kept : j <= i}) = n]]

\* the index of the first character of the line that holds index i
LineStart(s, i) == Max({0} \cup {j \in 1..(i - 1) : s[j] = NL}) + 1

\* line 91: re.sub(r'//.*$', '', s, flags=re.MULTILINE) removes, on each
\* line, everything from the first // to the end of the line.  The pattern
\* knows nothing of string literals.
RemoveLineComments(s) ==
    KeepIndices(s, {i \in 1..Len(s) :
        \/ s[i] = NL
        \/ ~\E k \in LineStart(s, i)..i : s[k] = "/" /\ At(s, k + 1) = "/"})

\* re.sub(r'/\*.*?\*/', '', s, flags=re.DOTALL) from index i on: each /* is
\* removed up to the nearest */ after it
RECURSIVE RemoveBlockCommentsFrom(_, _)
RemoveBlockCommentsFrom(s, i) ==
    LET Closes(a) == {j \in (a + 2)..(Len(s) - 1) : s[j] = "*" /\ s[j + 1] = "/"}
        opens == {a \in i..(Len(s) - 1) : s[a] = "/" /\ s[a + 1] = "*" /\ Closes(a) # {}}
    IN  IF opens = {} THEN SubSeq(s, i, Len(s))
        ELSE SubSeq(s, i, Min(opens) - 1)
                 \o RemoveBlockCommentsFrom(s, Min(Closes(Min(opens))) + 2)

\* line 92
RemoveBlockComments(s) == RemoveBlockCommentsFrom(s, 1)

\* line 95: re.sub(r',(\s*[}\]])', r'\1', s) removes each comma that only
\* whitespace separates from a closing brace or bracket
RemoveTrailingCommas(s) ==
    KeepIndices(s, {i \in 1..Len(s) :
        ~( /\ s[i] = ","
           /\ LET after == {j \in (i + 1)..Len(s) : ~IsSpace(s[j])}
              IN  after # {} /\ s[Min(after)] \in {"}", "]"} )})

\* lines 99-101: re.search(r'\{.*\}', s, flags=re.DOTALL)
ExtractObject(s) ==
    LET opens == {i \in 1..Len(s) : s[i] = "{"}
        closes == {i \in 1..Len(s) : s[i] = "}"}
    IN  IF opens # {} /\ closes # {} /\ Min(opens) < Max(closes)
        THEN SubSeq(s, Min(opens), Max(closes))
        ELSE s

\* _clean_json_response: [raised, exc, text]
_clean_json_response(response) ==
    IF response.t = "null" \/ Strip(response.v) = <<>>
    THEN [raised |-> TRUE, exc |-> Exc("ValueError", EmptyResponseError), text |-> <<>>]
    ELSE [raised |-> FALSE, exc |-> NoExc,
          text |-> ExtractObject(RemoveTrailingCommas(RemoveBlockComments(
                       RemoveLineComments(StripFence(response.v)))))]

(***************************************************************************)
(* json.loads (planner.py 132) on a text: objects, arrays, strings,        *)
(* numbers with up to two decimals, true, false and null.  A string value  *)
(* keeps its characters as written between the quotes.                     *)
(***************************************************************************)
ParseFailed == [ok |-> FALSE, value |-> None, next |-> 0]
Parsed(value, next) == [ok |-> TRUE, value |-> value, next |-> next]

\* the text has word at index i
StartsAt(s, i, word) ==
    /\ i >= 1
    /\ i + Len(word) - 1 <= Len(s)
    /\ SubSeq(s, i, i + Len(word) - 1) = word

\* the first index from i on that holds no whitespace
SkipWs(s, i) == Min({j \in i..(Len(s) + 1) : ~IsSpace(At(s, j))})

\* the index of the quote that closes the string whose content starts at
\* i, or 0
RECURSIVE StringEnd(_, _)
StringEnd(s, i) ==
    IF i > Len(s) \/ s[i] = NL THEN 0
    ELSE IF s[i] = Backslash THEN StringEnd(s, i + 2)
    ELSE IF s[i] = Q THEN i
    ELSE StringEnd(s, i + 1)

\* the index after the digits that start at i
RECURSIVE DigitsEnd(_, _)
DigitsEnd(s, i) == IF IsDigit(At(s, i)) THEN DigitsEnd(s, i + 1) ELSE i

\* the value of a run of digits
RECURSIVE DigitsValue(_)
DigitsValue(digits) ==
    IF digits = <<>> THEN 0
    ELSE 10 * DigitsValue(SubSeq(digits, 1, Len(digits) - 1))
             + DigitValue(digits[Len(digits)])

\* a number that starts at i, in hundredths
ParseNumber(s, i) ==
    LET int_end == DigitsEnd(s, i)
        frac_end == IF At(s, int_end) = "." THEN DigitsEnd(s, int_end + 1) ELSE int_end
        frac == SubSeq(s, int_end + 1, frac_end - 1)
    IN  IF int_end = i \/ (At(s, int_end) = "." /\ frac_end = int_end + 1) \/ Len(frac) > 2
        THEN ParseFailed
        ELSE Parsed(PyNum(100 * DigitsValue(SubSeq(s, i, int_end - 1))
                          + (IF Len(frac) = 1 THEN 10 * DigitsValue(frac)
                             ELSE DigitsValue(frac))),
                    frac_end)

RECURSIVE ParseValue(_, _), ParseItems(_, _, _), ParseMembers(_, _, _)

\* the value that starts at i: [ok, value, next]
ParseValue(s, i) ==
    LET c == At(s, i)
    IN  IF c = Q
        THEN LET end == StringEnd(s, i + 1)
             IN  IF end = 0 THEN ParseFailed
                 ELSE Parsed(PyStr(SubSeq(s, i + 1, end - 1)), end + 1)
        ELSE IF c = "["
        THEN LET j == SkipWs(s, i + 1)
             IN  IF At(s, j) = "]" THEN Parsed(PyList(<<>>), j + 1)
                 ELSE ParseItems(s, j, <<>>)
        ELSE IF c = "{"
        THEN LET j == SkipWs(s, i + 1)
             IN  IF At(s, j) = "}" THEN Parsed(PyDict(<<>>), j + 1)
                 ELSE ParseMembers(s, j, <<>>)
        ELSE IF IsDigit(c) THEN ParseNumber(s, i)
        ELSE IF StartsAt(s, i, <<"t","r","u","e">>) THEN Parsed(PyBool(TRUE), i + 4)
        ELSE IF StartsAt(s, i, <<"f","a","l","s","e">>) THEN Parsed(PyBool(FALSE), i + 5)
        ELSE IF StartsAt(s, i, <<"n","u","l","l">>) THEN Parsed(None, i + 4)
        ELSE ParseFailed

\* the items of an array, the next one starting at i
ParseItems(s, i, items) ==
    LET item == ParseValue(s, i)
        j == SkipWs(s, item.next)
    IN  IF ~item.ok THEN ParseFailed
        ELSE IF At(s, j) = "," THEN ParseItems(s, SkipWs(s, j + 1), Append(items, item.value))
        ELSE IF At(s, j) = "]" THEN Parsed(PyList(Append(items, item.value)), j + 1)
        ELSE ParseFailed

\* the members of an object, the next key starting at i
ParseMembers(s, i, members) ==
    LET key_end == IF At(s, i) = Q THEN StringEnd(s, i + 1) ELSE 0
        key == SubSeq(s, i + 1, key_end - 1)
        colon == SkipWs(s, key_end + 1)
        member == ParseValue(s, SkipWs(s, colon + 1))
        j == SkipWs(s, member.next)
        with_member == (key :> member.value) @@ members
    IN  IF key_end = 0 \/ At(s, colon) # ":" THEN ParseFailed
        ELSE IF ~member.ok THEN ParseFailed
        ELSE IF At(s, j) = "," THEN ParseMembers(s, SkipWs(s, j + 1), with_member)
        ELSE IF At(s, j) = "}" THEN Parsed(PyDict(with_member), j + 1)
        ELSE ParseFailed

\* json.loads(text): [ok, value]
json_loads(text) ==
    LET v == ParseValue(text, SkipWs(text, 1))
    IN  IF v.ok /\ SkipWs(text, v.next) = Len(text) + 1
        THEN [ok |-> TRUE, value |-> v.value]
        ELSE [ok |-> FALSE, value |-> None]

(***************************************************************************)
(* Model outputs handed to the repair parser: the text of a JSON object,   *)
(* as written, wrapped in a fence and with comments and a trailing comma   *)
(* added.                                                                  *)
(***************************************************************************)
Quoted(s) == <<Q>> \o s \o <<Q>>

\* the text of an array of strings
RECURSIVE ItemsText(_)
ItemsText(items) ==
    IF items = <<>> THEN <<>>
    ELSE Quoted(Head(items)) \o (IF Len(items) > 1 THEN <<","," ">> ELSE <<>>)
             \o ItemsText(Tail(items))

\* a plan object: its reasoning, its actions, its confidence as written and
\* in hundredths
PlanObject(reasoning, actions, token, hundredths) ==
    [reasoning |-> reasoning, actions |-> actions,
     confidence |-> [token |-> token, v |-> hundredths]]

\* string values without and with the sequences the repair removes
RepairObjects ==
    { PlanObject(<<"o","k">>, <<>>, <<"0",".","5">>, 50),
      PlanObject(<<>>, <<<<"c","l","i","c","k","(","b","1",")">>, <<"w","a","i","t","(","2",")">>>>, <<"1">>, 100),
      PlanObject(<<"s","a","y"," ">> \o <<Backslash, Q>> \o <<"h","i">> \o <<Backslash, Q>>,
                 <<<<"t","y","p","e","(","f","1",","," ","h","i",")">>>>, <<"0",".","8","5">>, 85),
      PlanObject(<<"s","e","e"," ","h","t","t","p",":","/","/","a",".","i","o">>, <<<<"c","l","i","c","k","(","b","1",")">>>>, <<"0",".","9">>, 90),
      PlanObject(<<"k","e","e","p"," ","/","*"," ","t","h","i","s"," ","*","/">>, <<>>, <<"0">>, 0),
      PlanObject(<<"p","a","i","r","s"," ","(","a",",",")"," ","[","b",",","]">>, <<<<"k","e","y","_","p","r","e","s","s","(",",",")">>>>, <<"0",".","2","5">>, 25) }

\* what json.loads gives for the text of a plan object
ObjectValue(o) ==
    PyDict((<<"r","e","a","s","o","n","i","n","g">> :> PyStr(o.reasoning))
           @@ (<<"a","c","t","i","o","n","s">> :> PyList([i \in DOMAIN o.actions |-> PyStr(o.actions[i])]))
           @@ (<<"c","o","n","f","i","d","e","n","c","e">> :> PyNum(o.confidence.v)))

Fences == {"none", "fence json", "fence"}
BlockComments == { <<>>, <<"/","*"," ","c"," ","*","/">>, <<"/","*"," ","s","e","e"," ","/","/"," ","b","e","l","o","w"," ","*","/">> }

Decorations ==
    [fence : Fences, line_comment : BOOLEAN, block_comment : BlockComments,
     trailing_comma : BOOLEAN]

NoDecoration ==
    [fence |-> "none", line_comment |-> FALSE, block_comment |-> <<>>,
     trailing_comma |-> FALSE]

\* the text of object o with the decorations d
Decorated(o, d) ==
    LET body ==
            <<"{">> \o <<NL>>
            \o Quoted(<<"r","e","a","s","o","n","i","n","g">>) \o <<":"," ">> \o Quoted(o.reasoning) \o <<",">>
            \o (IF d.line_comment THEN <<" ","/","/"," ","n","o","t","e">> ELSE <<>>) \o <<NL>>
            \o Quoted(<<"a","c","t","i","o","n","s">>) \o <<":"," ","[">> \o ItemsText(o.actions) \o <<"]",",">>  \o <<NL>>
            \o (IF d.block_comment # <<>> THEN d.block_comment \o <<NL>> ELSE <<>>)
            \o Quoted(<<"c","o","n","f","i","d","e","n","c","e">>) \o <<":"," ">> \o o.confidence.token
            \o (IF d.trailing_comma THEN <<",">> ELSE <<>>) \o <<NL>>
            \o <<"}">>
    IN  CASE d.fence = "none" -> body
          [] d.fence = "fence json" -> Fence \o <<"j","s","o","n">> \o <<NL>> \o body \o <<NL>> \o Fence
          [] d.fence = "fence" -> Fence \o <<NL>> \o body \o <<NL>> \o Fence

NoObject == PlanObject(<<>>, <<>>, <<>>, 0)

\* the responses: decorated objects, and no or blank content
\* responses that are no decorated plan object: nothing, blanks, an array
\* with two commas before its bracket, a fence inside a fence, a lone fence
RawResponses ==
    { None, PyStr(<<>>), PyStr(<<" "," ">>),
      PyStr(<<"{">> \o Quoted(<<"a","c","t","i","o","n","s">>) \o <<":"," ","[">> \o Quoted(<<"w","a","i","t","(","2",")">>) \o <<",",",","]","}">>),
      PyStr(Fence \o Fence \o <<"j","s","o","n">> \o <<NL>> \o <<"n","o"," ","p","l","a","n">> \o <<NL>> \o Fence \o Fence),
      PyStr(Fence \o <<"j","s","o","n">>) }

RepairInputs ==
    { [object |-> o, decoration |-> d, response |-> PyStr(Decorated(o, d))] :
        o \in RepairObjects, d \in Decorations }
    \cup { [object |-> NoObject, decoration |-> NoDecoration, response |-> r] :
             r \in RawResponses }

NoRepairInput == [object |-> NoObject, decoration |-> NoDecoration, response |-> None]
NoCleaning == [raised |-> FALSE, exc |-> NoExc, text |-> <<>>]
NotRepaired ==
    [called |-> FALSE, raised |-> FALSE, exc |-> NoExc, text |-> <<>>, value |-> None,
     again |-> NoCleaning]

\* planner.py 130-132: the response is cleaned and parsed
CleanAndParse ==
    /\ ~repair_out.called
    /\ LET c == _clean_json_response(repair_in.response)
           p == json_loads(c.text)
           \* the cleaning applied to the cleaned text
           again == IF c.raised THEN NoCleaning ELSE _clean_json_response(PyStr(c.text))
       IN  repair_out' =
               IF c.raised
               THEN [called |-> TRUE, raised |-> TRUE, exc |-> c.exc, text |-> <<>>,
                     value |-> None, again |-> again]
               ELSE IF ~p.ok
               THEN [called |-> TRUE, raised |-> TRUE,
                     exc |-> Exc("JSONDecodeError", JsonDecodeError), text |-> c.text,
                     value |-> None, again |-> again]
               ELSE [called |-> TRUE, raised |-> FALSE, exc |-> NoExc, text |-> c.text,
                     value |-> p.value, again |-> again]
    /\ UNCHANGED <<repair_in, outside_repair>>

(***************************************************************************)
(* ConversationLogger  (conversation_logger.py 16-143).  A log file is the *)
(* sequence of the sections written to it; the file system answers each    *)
(* log_conversation call by letting it through or by failing one of its    *)
(* steps.                                                                  *)
(***************************************************************************)
\* the outcomes of the file system for one log_conversation call: all fine,
\* mkdir fails, open fails, a write fails after the file was opened
FsOutcomes == {"ok", "mkdir fails", "open fails", "write fails"}

OSError == Exc("OSError", <<"N","o"," ","s","p","a","c","e"," ","l","e","f","t"," ","o","n"," ","d","e","v","i","c","e">>)

\* filename = f"{conversation_counter:02d}_{conversation_type}.md", line 63
LogFileName(counter, conversation_type) == <<counter, conversation_type>>

\* the content of a log file, <<>> when it does not exist
FileContent(fs, name) == IF name \in DOMAIN fs THEN fs[name] ELSE <<>>

\* open(filepath, "w") and the writes that follow
WriteFile(fs, name, sections) == (name :> sections) @@ fs

\* open(filepath, "a") and the writes that follow
AppendFile(fs, name, sections) == (name :> (FileContent(fs, name) \o sections)) @@ fs

\* message["role"] and message["content"] are defined for every message
MessagesWellFormed(messages) ==
    \A i \in DOMAIN messages.v :
        /\ messages.v[i].t = "dict"
        /\ {"role", "content"} \subseteq DOMAIN messages.v[i].v

CaughtByLogger_not_os_errors(e) == e.type # "OSError"

\* line 134: except Exception
CaughtByLogger(e) == TRUE

\* lines 56-132, the body of the try block: [raised, exc, fs]
LogConversationBody(counter, fs, conversation_type, messages, response, error, stage, outcome) ==
    LET name == LogFileName(counter, conversation_type)
        writes == \/ stage = "request"
                  \/ stage = "response" /\ Truthy(response)
                  \/ stage = "error" /\ Truthy(error)
                  \/ stage = "complete" /\ Truthy(response)
        truncates == stage \in {"request", "complete"}
    IN  IF outcome = "mkdir fails" THEN [raised |-> TRUE, exc |-> OSError, fs |-> fs]
        ELSE IF ~writes THEN [raised |-> FALSE, exc |-> NoExc, fs |-> fs]
        ELSE IF outcome = "open fails" THEN [raised |-> TRUE, exc |-> OSError, fs |-> fs]
        ELSE IF outcome = "write fails"
        THEN [raised |-> TRUE, exc |-> OSError,
              fs |-> IF truncates THEN WriteFile(fs, name, <<>>)
                     ELSE AppendFile(fs, name, <<>>)]
        ELSE IF truncates /\ ~MessagesWellFormed(messages)
        THEN [raised |-> TRUE, exc |-> Exc("KeyError", <<"'","r","o","l","e","'">>),
              fs |-> WriteFile(fs, name, <<"header">>)]
        ELSE [raised |-> FALSE, exc |-> NoExc,
              fs |-> CASE stage = "request" ->
                            WriteFile(fs, name, <<"header", "messages">>)
                       [] stage = "complete" ->
                            WriteFile(fs, name, <<"header", "messages", "response">>)
                       [] stage = "response" -> AppendFile(fs, name, <<"response">>)
                       [] stage = "error" -> AppendFile(fs, name, <<"error">>)]

\* ConversationLogger.log_conversation, lines 36-135: [raised, exc, fs]
log_conversation(dir, counter, fs, conversation_type, messages, response, error, stage, outcome) ==
    IF ~Truthy(dir) THEN [raised |-> FALSE, exc |-> NoExc, fs |-> fs]
    ELSE LET body == LogConversationBody(counter, fs, conversation_type, messages,
                                         response, error, stage, outcome)
         IN  IF body.raised /\ CaughtByLogger(body.exc)
             THEN [raised |-> FALSE, exc |-> NoExc, fs |-> body.fs]
             ELSE body

\* the two messages _call_llm builds, lines 257-260
PromptMessages ==
    PyList(<< PyDict([role |-> PyText("system"), content |-> PyText("system prompt")]),
              PyDict([role |-> PyText("user"), content |-> PyText("user prompt")]) >>)

(***************************************************************************)
(* AgentlyPlanner._call_llm  (planner.py 250-308)                          *)
(***************************************************************************)
\* the content of a completion as a value log_conversation tests for truth
LoggedContent(content) ==
    IF content.t \in {"json_text", "non_json_text"} THEN PyText("text") ELSE content

\* [raised, exc, content, counter, fs]: response is what the API answers,
\* first and second what the file system answers the two log calls
_call_llm(dir, counter, fs, conversation_type, response, first, second) ==
    LET n == counter + 1
        request == log_conversation(dir, n, fs, conversation_type, PromptMessages,
                                    None, None, "request", first)
        \* the exception of the try block, if any
        failure == IF request.raised THEN request.exc
                   ELSE IF response.raised THEN Exc("APIConnectionError", response.error)
                   ELSE NoExc
        answered == log_conversation(dir, n, request.fs, conversation_type,
                                     PromptMessages, LoggedContent(response.content),
                                     None, "response", second)
        failed == log_conversation(dir, n, request.fs, conversation_type, PromptMessages,
                                   None, PyFmt(<<failure.msg>>), "error", second)
    IN  IF failure = NoExc /\ ~answered.raised
        THEN [raised |-> FALSE, exc |-> NoExc, content |-> response.content,
              counter |-> n, fs |-> answered.fs]
        ELSE IF failure = NoExc
        THEN \* the response log raised inside the try block: the error is
             \* logged (with the same file system outcome) and re-raised
             [raised |-> TRUE, exc |-> answered.exc, content |-> None, counter |-> n,
              fs |-> log_conversation(dir, n, answered.fs, conversation_type,
                                      PromptMessages, None, PyFmt(<<answered.exc.msg>>),
                                      "error", second).fs]
        ELSE [raised |-> TRUE, exc |-> IF failed.raised THEN failed.exc ELSE failure,
              content |-> None, counter |-> n, fs |-> failed.fs]

\* the arguments of a direct log_conversation call
LogStages == {"request", "response", "error", "complete", "summary"}

LogMessages ==
    { PromptMessages, PyList(<<PyDict([content |-> PyText("no role")])>>) }

LogCalls ==
    { [conversation_type |-> "planning", messages |-> m, response |-> r[1],
       error |-> r[2], stage |-> s, outcome |-> o] :
        m \in LogMessages,
        r \in { <<None, None>>, <<PyText("the plan"), None>>, <<None, PyText("boom")>> },
        s \in LogStages, o \in FsOutcomes }

NoLogCall ==
    [conversation_type |-> "planning", messages |-> PromptMessages, response |-> None,
     error |-> None, stage |-> "request", outcome |-> "ok"]
NotLogged == [called |-> FALSE, raised |-> FALSE, exc |-> NoExc, before |-> <<>>]

\* the log directories a planner is constructed with (main.py 62-65)
LogDirs == { None, PyText("runs/1/logs") }

\* log_conversation is called on the planner's logger
LogConversation ==
    /\ ~log_out.called
    /\ plan_pc = "idle"
    /\ LET l == log_conversation(log_dir, conversation_counter, log_files,
                                 log_in.conversation_type, log_in.messages,
                                 log_in.response, log_in.error, log_in.stage,
                                 log_in.outcome)
       IN  /\ log_out' = [called |-> TRUE, raised |-> l.raised, exc |-> l.exc,
                          before |-> log_files]
           /\ log_files' = l.fs
    /\ UNCHANGED <<log_dir, conversation_counter, log_in, planner_instances, planner_vars,
                   outside_planner>>

(***************************************************************************)
(* AgentlyPlanner.generate_plan  (planner.py 105-154)                      *)
(* The content of a completion is described by what it is after            *)
(* _clean_json_response: blank, text json.loads rejects, or text that      *)
(* json.loads parses to a value.                                           *)
(***************************************************************************)
ActionPlan(reasoning, actions, confidence) ==
    [reasoning |-> reasoning, actions |-> actions, confidence |-> confidence,
     metadata |-> None]

\* lines 150-154
FallbackPlan(e) ==
    ActionPlan(PyFmt(<<"Error in planning: ", e.msg>>), PyList(<<>>), PyNum(0))

\* len(x) is defined
HasLen(x) == x.t \in {"str", "text", "fstr", "list", "dict"}

\* lines 129-145: [raised, exc, plan]
ParsePlan(response) ==
    IF IsBlank(response)
    THEN [raised |-> TRUE, exc |-> Exc("ValueError", EmptyResponseError),
          plan |-> FallbackPlan(NoExc)]
    ELSE IF response.t # "json_text"
    THEN [raised |-> TRUE,
          exc |-> Exc("ValueError", <<"I","n","v","a","l","i","d"," ","J","S","O","N"," ","r","e","s","p","o","n","s","e",":"," ">> \o JsonDecodeError),
          plan |-> FallbackPlan(NoExc)]
    ELSE LET plan_data == response.v
         IN  IF plan_data.t # "dict"
             THEN [raised |-> TRUE, exc |-> Exc("AttributeError", NoGetError),
                   plan |-> FallbackPlan(NoExc)]
             ELSE LET plan == ActionPlan(DictGet(plan_data, "reasoning", PyStr(<<>>)),
                                         DictGet(plan_data, "actions", PyList(<<>>)),
                                         DictGet(plan_data, "confidence", PyNum(50)))
                  IN  IF ~HasLen(plan.actions)
                      THEN \* line 144: len(plan.actions)
                           [raised |-> TRUE,
                            exc |-> Exc("TypeError", <<"o","b","j","e","c","t"," ","h","a","s"," ","n","o"," ","l","e","n","(",")">>),
                            plan |-> FallbackPlan(NoExc)]
                      ELSE [raised |-> FALSE, exc |-> NoExc, plan |-> plan]

CaughtByGeneratePlan_value_errors_only(e) == e.type = "ValueError"

\* line 147: except Exception
CaughtByGeneratePlan(e) == TRUE

NoPlanReturn == [kind |-> "none", plan |-> FallbackPlan(NoExc), exc |-> NoExc]
PlanReturned(plan) == [kind |-> "returned", plan |-> plan, exc |-> NoExc]
PlanRaised(e) == [kind |-> "raised", plan |-> FallbackPlan(NoExc), exc |-> e]

\* what generate_plan does with an exception raised inside its try block
GeneratePlanExcept(e) ==
    IF CaughtByGeneratePlan(e) THEN PlanReturned(FallbackPlan(e)) ELSE PlanRaised(e)

\* lines 186-192 and 201-207: a recovery that failed
RecoveryFailedPlan(e) ==
    ActionPlan(PyFmt(<<"Recovery planning failed: ", e.msg>>), PyList(<<>>), PyNum(0))

\* the confidence of every recovery plan, line 197, in hundredths
RecoveryConfidence == 70

RecoveryPlan_model_confidence(recovery_data) ==
    [ActionPlan(DictGet(recovery_data, "recovery_strategy", PyStr(<<>>)),
                DictGet(recovery_data, "actions", PyList(<<>>)),
                DictGet(recovery_data, "confidence", PyNum(RecoveryConfidence)))
        EXCEPT !.metadata = PyDict([is_recovery |-> PyBool(TRUE)])]

\* lines 194-199
RecoveryPlan(recovery_data) ==
    [ActionPlan(DictGet(recovery_data, "recovery_strategy", PyStr(<<>>)),
                DictGet(recovery_data, "actions", PyList(<<>>)),
                PyNum(RecoveryConfidence))
        EXCEPT !.metadata = PyDict([is_recovery |-> PyBool(TRUE)])]

\* lines 183-199: [raised, exc, plan]; a failure to clean or parse is caught
\* by the inner except and gives the failed plan, one to read the parsed
\* value is raised to the outer except
ParseRecovery(response) ==
    IF IsBlank(response)
    THEN [raised |-> FALSE, exc |-> NoExc,
          plan |-> RecoveryFailedPlan(Exc("ValueError", EmptyResponseError))]
    ELSE IF response.t # "json_text"
    THEN [raised |-> FALSE, exc |-> NoExc,
          plan |-> RecoveryFailedPlan(Exc("JSONDecodeError", JsonDecodeError))]
    ELSE IF response.v.t # "dict"
    THEN [raised |-> TRUE, exc |-> Exc("AttributeError", NoGetError),
          plan |-> FallbackPlan(NoExc)]
    ELSE [raised |-> FALSE, exc |-> NoExc, plan |-> RecoveryPlan(response.v)]

\* lines 201-207: except Exception
RecoverExcept(e) == PlanReturned(RecoveryFailedPlan(e))

HasErrorContext_not_none(context) == context.error_context # None

\* line 160: `if not context.error_context` is false
HasErrorContext(context) == Truthy(context.error_context)

\* the keyword arguments recover_from_error passes to ERROR_RECOVERY.format,
\* lines 168-175
RecoveryKwargs ==
    [name \in { <<"f","a","i","l","e","d","_","a","c","t","i","o","n">>, <<"e","r","r","o","r","_","m","e","s","s","a","g","e">>, <<"c","u","r","r","e","n","t","_","u","i","_","s","t","a","t","e">>,
                <<"o","r","i","g","i","n","a","l","_","t","a","s","k">>, <<"c","o","m","p","l","e","t","e","d","_","a","c","t","i","o","n","s">>, <<"a","v","a","i","l","a","b","l","e","_","e","l","e","m","e","n","t","s">> }
        |-> KwargValue(name)]

\* lines 216-219: the keyword arguments of ELEMENT_SELECTION
SelectionKwargs == [name \in { <<"i","n","t","e","n","t">>, <<"e","l","e","m","e","n","t","s">> } |-> KwargValue(name)]

\* lines 114-118: the keyword arguments of PLAN_GENERATION
PlanKwargs ==
    [name \in { <<"t","a","s","k">>, <<"u","i","_","g","r","a","p","h","_","s","u","m","m","a","r","y">>, <<"r","e","l","e","v","a","n","t","_","e","l","e","m","e","n","t","s">> } |-> KwargValue(name)]

CaughtBySelect_value_errors_only(e) == e.type \in {"ValueError", "JSONDecodeError"}

\* line 246: except Exception
CaughtBySelect(e) == TRUE

NoSelectReturn == [kind |-> "none", value |-> None, exc |-> NoExc]
SelectReturned(value) == [kind |-> "returned", value |-> value, exc |-> NoExc]
SelectRaised(e) == [kind |-> "raised", value |-> None, exc |-> e]

\* what select_element does with an exception raised inside its try block
SelectExcept(e) == IF CaughtBySelect(e) THEN SelectReturned(None) ELSE SelectRaised(e)

\* lines 227-244: the content is the response after the fence is stripped
ParseSelection(response) ==
    IF IsBlank(response) THEN SelectExcept(Exc("ValueError", EmptyResponseError))
    ELSE IF response.t # "json_text"
    THEN SelectExcept(Exc("JSONDecodeError", JsonDecodeError))
    ELSE IF response.v.t # "dict" THEN SelectExcept(Exc("AttributeError", NoGetError))
    ELSE SelectReturned(DictGet(response.v, "element_id", None))

PlanTasks == { PyText("submit the form"), PyText("") }

\* context.error_context: None (the default), an empty dict, the dict main.py
\* builds, or something that is not a dict
ErrorContexts ==
    { None, PyDict(<<>>),
      PyDict([failed_action |-> PyText("click(button_1)"),
              error_message |-> PyText("Element not found")]),
      PyDict([error_message |-> PyText("Element not found")]),
      PyText("Element not found") }

\* the ui_graph is a dict of element dicts, or something else
PlanContexts ==
    { [task |-> t, ui_graph |-> g, error_context |-> e] :
        t \in PlanTasks, g \in {"well_formed", "malformed"}, e \in ErrorContexts }

PlanJsonObjects ==
    { JsonObject([reasoning |-> r, actions |-> a, confidence |-> c]) :
        r \in {Absent, PyStr(<<"c","l","i","c","k"," ","S","u","b","m","i","t">>)},
        a \in {Absent, None, PyNum(3), PyStr(<<"c","l","i","c","k","(","b","u","t","t","o","n","_","1",")">>),
               PyDict([type |-> PyText("click")]), PyList(<<>>),
               PyList(<<PyStr(<<"c","l","i","c","k","(","b","u","t","t","o","n","_","1",")">>), PyStr(<<"w","a","i","t","(","2",")">>)>>)},
        c \in {Absent, None, PyStr(<<"h","i","g","h">>), PyNum(-20), PyNum(0), PyNum(50),
               PyNum(90), PyNum(100), PyNum(150)} }

\* a failed call, or a content: None, blank, not JSON, or JSON
ResponsesOf(values) ==
    { ApiError(ConnectionError), Completion(None), Completion(PyStr(<<>>)),
      Completion(PyStr(<<" "," ">>)), Completion(NonJsonText) }
    \cup { Completion(JsonText(v)) : v \in values }

PlanResponses == ResponsesOf({PyList(<<>>)} \cup PlanJsonObjects)

RecoveryJsonObjects ==
    { JsonObject([recovery_strategy |-> r, actions |-> a, confidence |-> c]) :
        r \in {Absent, PyStr(<<"c","l","o","s","e"," ","t","h","e"," ","d","i","a","l","o","g">>)},
        a \in {Absent, PyStr(<<"k","e","y","_","p","r","e","s","s","(","E","s","c","a","p","e",")">>), PyList(<<PyStr(<<"k","e","y","_","p","r","e","s","s","(","E","s","c","a","p","e",")">>)>>)},
        c \in {Absent, PyNum(0), PyNum(95)} }

RecoveryResponses == ResponsesOf({PyList(<<>>), None} \cup RecoveryJsonObjects)

SelectionJsonObjects ==
    { JsonObject([element_id |-> id, reasoning |-> PyStr(<<"t","h","e"," ","S","u","b","m","i","t"," ","b","u","t","t","o","n">>)]) :
        id \in {Absent, None, PyStr(<<>>), PyStr(<<"b","t","n","1">>), PyNum(7), PyList(<<>>)} }

SelectionResponses == ResponsesOf({PyList(<<>>), PyStr(<<"b","t","n","1">>)} \cup SelectionJsonObjects)

\* the elements passed to select_element: a list of dicts, a list holding
\* something else, or no list
SelectArguments ==
    { [intent |-> i, elements |-> e] :
        i \in { PyText("click submit button"), PyText("") },
        e \in { PyList(<<>>),
                PyList(<<PyDict([id |-> PyText("btn1"), title |-> PyText("Submit")])>>),
                PyList(<<PyText("btn1")>>), None } }

\* _format_elements_for_selection, lines 367-381, fails on these
ElementsMalformed(elements) ==
    \/ elements.t # "list"
    \/ \E i \in DOMAIN elements.v : elements.v[i].t # "dict"

NoResponse == Completion([t |-> "unset", v |-> <<>>])
NoContext == [task |-> PyText(""), ui_graph |-> "well_formed", error_context |-> None]
NoSelectArguments == [intent |-> PyText(""), elements |-> PyList(<<>>)]
NoLLM == [called |-> FALSE, conversation_type |-> "", raised |-> FALSE, exc |-> NoExc,
          content |-> None]

\* conversation_counter is capped for the model
MaxConversations == 1

\* the user prompt is rendered, then the system prompt, MAIN_SYSTEM.format():
\* [raised, exc]
FormatPrompts(template, kwargs) ==
    LET user == format(template, kwargs)
        system == format(MAIN_SYSTEM, <<>>)
    IN  IF user.raised THEN [raised |-> TRUE, exc |-> user.exc]
        ELSE [raised |-> system.raised, exc |-> system.exc]

\* _summarize_ui_graph and the element extraction fail on a malformed
\* ui_graph; then the prompts are rendered: [raised, exc]
RenderPrompt(context, template, kwargs) ==
    IF context.ui_graph = "malformed"
    THEN [raised |-> TRUE, exc |-> Exc("AttributeError", NoGetError)]
    ELSE FormatPrompts(template, kwargs)

\* generate_plan up to its call of _call_llm, lines 107-119
EnterGeneratePlan(entry) ==
    /\ plan_op' = "generate_plan"
    /\ plan_entry' = entry
    /\ plan_response' = NoResponse
    /\ plan_llm' = NoLLM
    /\ LET p == RenderPrompt(plan_context', PLAN_GENERATION, PlanKwargs)
       IN  IF p.raised
           THEN plan_ret' = GeneratePlanExcept(p.exc) /\ plan_pc' = "done"
           ELSE plan_ret' = NoPlanReturn /\ plan_pc' = "call_llm"
    /\ UNCHANGED <<select_args, select_ret, logger_vars, outside_planner>>

\* generate_plan is called (main.py 98)
GeneratePlan ==
    /\ plan_pc = "idle"
    /\ conversation_counter < MaxConversations
    /\ plan_context' \in {c \in PlanContexts : c.error_context = None}
    /\ EnterGeneratePlan("generate_plan")

\* recover_from_error is called (main.py 95), lines 156-175
RecoverFromError ==
    /\ plan_pc = "idle"
    /\ conversation_counter < MaxConversations
    /\ plan_context' \in PlanContexts
    /\ IF ~HasErrorContext(plan_context')
       THEN EnterGeneratePlan("recover_from_error")
       ELSE /\ plan_op' = "recover_from_error"
            /\ plan_entry' = "recover_from_error"
            /\ plan_response' = NoResponse
            /\ plan_llm' = NoLLM
            /\ LET p == IF plan_context'.error_context.t # "dict"
                        THEN [raised |-> TRUE, exc |-> Exc("AttributeError", NoGetError)]
                        ELSE RenderPrompt(plan_context', ERROR_RECOVERY, RecoveryKwargs)
               IN  IF p.raised
                   THEN plan_ret' = RecoverExcept(p.exc) /\ plan_pc' = "done"
                   ELSE plan_ret' = NoPlanReturn /\ plan_pc' = "call_llm"
            /\ UNCHANGED <<select_args, select_ret, logger_vars, outside_planner>>

\* select_element is called, lines 209-219
SelectElement ==
    /\ plan_pc = "idle"
    /\ conversation_counter < MaxConversations
    /\ select_args' \in SelectArguments
    /\ plan_op' = "select_element"
    /\ plan_entry' = "select_element"
    /\ plan_response' = NoResponse
    /\ plan_llm' = NoLLM
    /\ LET p == IF ElementsMalformed(select_args'.elements)
                THEN [raised |-> TRUE, exc |-> Exc("AttributeError", NoGetError)]
                ELSE FormatPrompts(ELEMENT_SELECTION, SelectionKwargs)
       IN  IF p.raised
           THEN select_ret' = SelectExcept(p.exc) /\ plan_pc' = "done"
           ELSE select_ret' = NoSelectReturn /\ plan_pc' = "call_llm"
    /\ UNCHANGED <<plan_context, plan_ret, logger_vars, outside_planner>>

\* generate_plan as a function of its context and of what _call_llm gave
\* back, lines 105-154
generate_plan(context, llm) ==
    LET p == RenderPrompt(context, PLAN_GENERATION, PlanKwargs)
        parsed == ParsePlan(llm.content)
    IN  IF p.raised THEN GeneratePlanExcept(p.exc)
        ELSE IF llm.raised THEN GeneratePlanExcept(llm.exc)
        ELSE IF parsed.raised THEN GeneratePlanExcept(parsed.exc)
        ELSE PlanReturned(parsed.plan)

\* the conversation type each method passes to _call_llm
ConversationType(op) ==
    CASE op = "generate_plan" -> "initial_planning"
      [] op = "recover_from_error" -> "error_recovery"
      [] op = "select_element" -> "element_selection"

\* the responses the model gives to the prompt of each method
ResponsesTo(op) ==
    CASE op = "generate_plan" -> PlanResponses
      [] op = "recover_from_error" -> RecoveryResponses
      [] op = "select_element" -> SelectionResponses

MaxPlanners == 2

\* AgentlyPlanner.__init__, lines 63-69: a planner is constructed on the log
\* directory; its ConversationLogger starts its counter at 0
\* (conversation_logger.py 30-34) and the files stay
NewPlanner ==
    /\ plan_pc = "idle"
    /\ planner_instances < MaxPlanners
    /\ planner_instances' = planner_instances + 1
    /\ conversation_counter' = 0
    /\ UNCHANGED <<planner_vars, log_dir, log_files, log_in, log_out, outside_planner>>

\* the file system lets a log call fail only when there is a log directory
FsOutcomesFor(dir) == IF Truthy(dir) THEN FsOutcomes ELSE {"ok"}

\* _call_llm is called and returns the content or re-raises: lines 122-126,
\* 176-180, 221-225
CallLLM ==
    /\ plan_pc = "call_llm"
    /\ \E response \in ResponsesTo(plan_op),
          first \in FsOutcomesFor(log_dir), second \in FsOutcomesFor(log_dir) :
          LET r == _call_llm(log_dir, conversation_counter, log_files,
                             ConversationType(plan_op), response, first, second)
          IN  /\ plan_response' = response
              /\ plan_llm' = [called |-> TRUE,
                              conversation_type |-> ConversationType(plan_op),
                              raised |-> r.raised, exc |-> r.exc, content |-> r.content]
              /\ conversation_counter' = r.counter
              /\ log_files' = r.fs
              /\ IF ~r.raised
                 THEN /\ plan_pc' = "parse"
                      /\ UNCHANGED <<plan_ret, select_ret>>
                 ELSE /\ plan_pc' = "done"
                      /\ plan_ret' = CASE plan_op = "generate_plan" -> GeneratePlanExcept(r.exc)
                                       [] plan_op = "recover_from_error" -> RecoverExcept(r.exc)
                                       [] OTHER -> plan_ret
                      /\ select_ret' = IF plan_op = "select_element"
                                       THEN SelectExcept(r.exc) ELSE select_ret
    /\ UNCHANGED <<plan_op, plan_entry, plan_context, select_args, log_dir, log_in,
                   log_out, planner_instances, outside_planner>>

\* the content is cleaned, parsed and turned into the result: lines 128-154,
\* 182-206, 227-248
ParseResponse ==
    /\ plan_pc = "parse"
    /\ plan_ret' =
          CASE plan_op = "generate_plan" ->
                  LET p == ParsePlan(plan_llm.content)
                  IN  IF p.raised THEN GeneratePlanExcept(p.exc) ELSE PlanReturned(p.plan)
            [] plan_op = "recover_from_error" ->
                  LET p == ParseRecovery(plan_llm.content)
                  IN  IF p.raised THEN RecoverExcept(p.exc) ELSE PlanReturned(p.plan)
            [] OTHER -> plan_ret
    /\ select_ret' = IF plan_op = "select_element" THEN ParseSelection(plan_llm.content)
                     ELSE select_ret
    /\ plan_pc' = "done"
    /\ UNCHANGED <<plan_op, plan_entry, plan_context, plan_response, plan_llm,
                   select_args, logger_vars, outside_planner>>

\* the caller has the result; the planner keeps the logger's counter and the
\* log files
PlanReturn ==
    /\ plan_pc = "done"
    /\ plan_pc' = "idle"
    /\ plan_op' = ""
    /\ plan_entry' = ""
    /\ plan_context' = NoContext
    /\ plan_response' = NoResponse
    /\ plan_llm' = NoLLM
    /\ plan_ret' = NoPlanReturn
    /\ select_args' = NoSelectArguments
    /\ select_ret' = NoSelectReturn
    /\ UNCHANGED <<logger_vars, outside_planner>>
(***************************************************************************)
(* TaskRunner.run_task  (benchmark_tasks/task_runner.py 103-156, 200-337). *)
(* The clock counts whole seconds since run_task took start_time; an       *)
(* external process takes some seconds and, when it times out, the seconds *)
(* of its timeout.                                                         *)
(***************************************************************************)
\* the timeout of `swift build`, line 222
BuildTimeout == 60

\* a ratio a / b of run_task, lines 130-131
Ratio(a, b) == [num |-> a, den |-> b]

TaskResult(success, execution_time_seconds, total_actions, successful_actions, failed_actions, error_message) ==
    [success |-> success, execution_time_seconds |-> execution_time_seconds,
     total_actions |-> total_actions, successful_actions |-> successful_actions,
     failed_actions |-> failed_actions, error_message |-> error_message,
     speed_vs_human_baseline |-> None, action_count_vs_baseline |-> None]

NoTaskResult == TaskResult(FALSE, 0, 0, 0, 0, None)

\* line 115: timeout_override or task.timeout_seconds
EffectiveTimeout(task) ==
    IF task.timeout_override # None /\ task.timeout_override.v # 0
    THEN task.timeout_override.v
    ELSE task.timeout_seconds

\* lines 254-263: except subprocess.TimeoutExpired
TimedOutResult(timeout) ==
    TaskResult(FALSE, timeout, 0, 0, 1,
               PyFmt(<<"Task timed out after ", timeout, " seconds">>))

\* lines 264-273: except subprocess.CalledProcessError
BuildFailedResult(returncode) ==
    TaskResult(FALSE, 0, 0, 0, 1,
               PyFmt(<<"Planner execution failed: ", "Command '['swift', 'build']' returned non-zero exit status ",
                       returncode>>))

\* lines 274-283: except Exception
ExecutionFailedResult(e) ==
    TaskResult(FALSE, 0, 0, 0, 1,
               PyFmt(<<"Swift AgentlyRunner execution failed: ", e.msg>>))

\* _parse_agently_runner_output, lines 285-337: [raised, exc, result]
_parse_agently_runner_output(process) ==
    LET success == process.returncode = 0
        stdout == process.stdout
        parsed == success /\ stdout.t = "json_text"
        counts ==
            IF parsed
            THEN LET total == DictGet(stdout.v, "total_actions", PyNum(0)).v
                     done == DictGet(stdout.v, "successful_actions", PyNum(0)).v
                 IN  <<total, done, total - done>>
            ELSE IF success /\ stdout.t = "non_json_text"
            THEN <<1, 1, 0>>
            ELSE <<0, 0, IF success THEN 0 ELSE 1>>
        error_message ==
            IF ~success /\ Truthy(process.stderr)
            THEN PyStr(Strip(process.stderr.v)) ELSE None
    IN  IF parsed /\ stdout.v.t # "dict"
        THEN [raised |-> TRUE, exc |-> Exc("AttributeError", NoGetError),
              result |-> NoTaskResult]
        ELSE [raised |-> FALSE, exc |-> NoExc,
              result |-> TaskResult(success, 0, counts[1], counts[2], counts[3],
                                    error_message)]

\* run_task after _execute_with_planner returned, lines 121-135 and 137-156:
\* the elapsed time replaces the execution time, the ratios to the human
\* baseline are computed, and an exception gives a failed result
FinishRunTask(task, result, elapsed) ==
    LET timed == [result EXCEPT !.execution_time_seconds = elapsed]
        baseline == task.human_baseline
    IN  IF baseline = None THEN timed
        ELSE IF baseline.median_time_seconds = 0 \/ baseline.median_action_count = 0
        THEN TaskResult(FALSE, elapsed, 0, 0, 1, PyFmt(<<"division by zero">>))
        ELSE [timed EXCEPT
                !.speed_vs_human_baseline = Ratio(elapsed, baseline.median_time_seconds),
                !.action_count_vs_baseline =
                    Ratio(result.total_actions, baseline.median_action_count)]

\* the tasks and overrides run_task is called with
Baselines ==
    { None, [median_time_seconds |-> 45, median_action_count |-> 5],
      [median_time_seconds |-> 45, median_action_count |-> 0] }

RunTaskCalls ==
    { [timeout_seconds |-> 30, timeout_override |-> o, human_baseline |-> b] :
        o \in {None, PyNum(0), PyNum(10)}, b \in Baselines }

NoRunTaskCall == [timeout_seconds |-> 30, timeout_override |-> None, human_baseline |-> None]

\* the seconds an external process takes when it does not time out
Durations == {0, 2}

\* how `swift build` ends
BuildOutcomes == {"ok", "non-zero exit", "timeout", "cannot start"}

\* the output of agently-runner
RunnerStdouts ==
    { PyStr(<<>>), NonJsonText, JsonText(PyList(<<>>)),
      JsonText(PyDict([total_actions |-> PyNum(3), successful_actions |-> PyNum(2)])) }

RunnerStderrs == { PyStr(<<>>), PyStr(<<" "," ">>), PyStr(<<"e","r","r","o","r",":"," ","n","o"," ","s","u","c","h"," ","m","o","d","u","l","e">>) }

\* how `swift run agently-runner` ends
RunOutcomes ==
    { [kind |-> k, returncode |-> 0, stdout |-> PyStr(<<>>), stderr |-> PyStr(<<>>)] :
        k \in {"timeout", "cannot start"} }
    \cup { [kind |-> "completed", returncode |-> c, stdout |-> o, stderr |-> e] :
            c \in {0, 1}, o \in RunnerStdouts, e \in RunnerStderrs }

NoProcess == [kind |-> "none", returncode |-> 0, stdout |-> PyStr(<<>>), stderr |-> PyStr(<<>>)]

\* an external invocation as the trace records it
Invocation(command, timeout, outcome) ==
    [command |-> command, timeout |-> timeout, outcome |-> outcome]

\* run_task is called, lines 103-119
RunTask ==
    /\ run_pc = "idle"
    /\ run_task_in' \in RunTaskCalls
    /\ run_pc' = "build"
    /\ run_clock' = 0
    /\ run_trace' = <<>>
    /\ run_process' = NoProcess
    /\ run_ret' = NoTaskResult
    /\ UNCHANGED outside_runner

\* `swift build` runs, lines 215-226
SwiftBuild ==
    /\ run_pc = "build"
    /\ \E outcome \in BuildOutcomes, d \in Durations :
          LET taken == IF outcome = "timeout" THEN BuildTimeout ELSE d
              elapsed == run_clock + taken
          IN  /\ run_trace' = Append(run_trace,
                                     Invocation("swift build", BuildTimeout, outcome))
              /\ run_clock' = elapsed
              /\ IF outcome = "ok"
                 THEN run_pc' = "run" /\ run_ret' = run_ret
                 ELSE /\ run_pc' = "done"
                      /\ run_ret' =
                            FinishRunTask(run_task_in,
                                CASE outcome = "timeout" ->
                                        TimedOutResult(EffectiveTimeout(run_task_in))
                                  [] outcome = "non-zero exit" -> BuildFailedResult(1)
                                  [] OTHER -> ExecutionFailedResult(
                                        Exc("FileNotFoundError", <<"N","o"," ","s","u","c","h"," ","f","i","l","e"," ","o","r"," ","d","i","r","e","c","t","o","r","y",":"," ","'","s","w","i","f","t","'">>)),
                                elapsed)
    /\ UNCHANGED <<run_task_in, run_process, outside_runner>>

\* `swift run agently-runner` runs and its output is parsed, lines 228-252
SwiftRun ==
    /\ run_pc = "run"
    /\ \E process \in RunOutcomes, d \in Durations :
          LET timeout == EffectiveTimeout(run_task_in)
              taken == IF process.kind = "timeout" THEN timeout ELSE d
              elapsed == run_clock + taken
              parsed == _parse_agently_runner_output(process)
          IN  /\ run_process' = process
              /\ run_trace' = Append(run_trace,
                                     Invocation("swift run agently-runner", timeout,
                                                process.kind))
              /\ run_clock' = elapsed
              /\ run_ret' =
                    FinishRunTask(run_task_in,
                        CASE process.kind = "timeout" -> TimedOutResult(timeout)
                          [] process.kind = "cannot start" ->
                                ExecutionFailedResult(
                                    Exc("FileNotFoundError", <<"N","o"," ","s","u","c","h"," ","f","i","l","e"," ","o","r"," ","d","i","r","e","c","t","o","r","y",":"," ","'","s","w","i","f","t","'">>))
                          [] OTHER -> IF parsed.raised
                                      THEN ExecutionFailedResult(parsed.exc)
                                      ELSE parsed.result,
                        elapsed)
    /\ run_pc' = "done"
    /\ UNCHANGED <<run_task_in, outside_runner>>

\* the caller has the TaskResult
RunReturn ==
    /\ run_pc = "done"
    /\ run_pc' = "idle"
    /\ run_task_in' = NoRunTaskCall
    /\ run_clock' = 0
    /\ run_trace' = <<>>
    /\ run_process' = NoProcess
    /\ run_ret' = NoTaskResult
    /\ UNCHANGED outside_runner


(***************************************************************************)
(* TaskRunner.run_task_suite  (task_runner.py 158-198)                     *)
(***************************************************************************)
MaxTasks == 2

\* the seconds of the pause between two tasks, line 178
SuitePause == 2

BenchmarkTask(task_id, human_baseline) ==
    [task_id |-> task_id, timeout_seconds |-> 30, human_baseline |-> human_baseline]

\* the task lists run_task_suite is called with
SuiteTasks ==
    { BenchmarkTask(id, b) :
        id \in {"open_calculator", "save_note"},
        b \in {None, [median_time_seconds |-> 45, median_action_count |-> 5]} }

SuiteTaskLists ==
    {<<>>} \cup {<<t>> : t \in SuiteTasks}
    \cup {<<t, u>> : t \in {BenchmarkTask("open_calculator", None)}, u \in SuiteTasks}

\* line 174: run_task(task), without a timeout override
RunTaskCall(task) ==
    [timeout_seconds |-> task.timeout_seconds, timeout_override |-> None,
     human_baseline |-> task.human_baseline]

Recorded_successes_only(results, task, result) ==
    IF result.success THEN Append(results, [task_id |-> task.task_id, result |-> result])
    ELSE results

\* line 175 and line 195: results.append(result)
Recorded(results, task, result) ==
    Append(results, [task_id |-> task.task_id, result |-> result])

\* lines 186-194: the error result of a task whose run_task raised
SuiteErrorResult(e) == TaskResult(FALSE, 0, 0, 0, 1, PyFmt(<<e.msg>>))

\* run_task_suite is called, line 168
RunTaskSuite ==
    /\ suite_pc = "idle"
    /\ run_pc = "idle"
    /\ suite_tasks' \in SuiteTaskLists
    /\ suite_i' = 1
    /\ suite_results' = <<>>
    /\ suite_interrupted' = FALSE
    /\ suite_ret' = <<>>
    /\ suite_pc' = "loop"
    /\ UNCHANGED <<runner_vars, outside_suite>>

\* lines 170-174: the loop takes the next task and calls run_task, whose
\* lines 103-119 run
SuiteRunTask ==
    /\ suite_pc = "loop"
    /\ suite_i <= Len(suite_tasks)
    /\ run_task_in' = RunTaskCall(suite_tasks[suite_i])
    /\ run_pc' = "build"
    /\ run_clock' = 0
    /\ run_trace' = <<>>
    /\ run_process' = NoProcess
    /\ run_ret' = NoTaskResult
    /\ suite_pc' = "task"
    /\ UNCHANGED <<suite_tasks, suite_i, suite_results, suite_interrupted, suite_ret,
                   outside_suite>>

\* line 175: run_task returned and its result is appended
SuiteRecord ==
    /\ suite_pc = "task"
    /\ run_pc = "done"
    /\ suite_results' = Recorded(suite_results, suite_tasks[suite_i], run_ret)
    /\ run_pc' = "idle"
    /\ run_task_in' = NoRunTaskCall
    /\ run_clock' = 0
    /\ run_trace' = <<>>
    /\ run_process' = NoProcess
    /\ run_ret' = NoTaskResult
    /\ suite_pc' = "sleep"
    /\ UNCHANGED <<suite_tasks, suite_i, suite_interrupted, suite_ret, outside_suite>>

\* line 178: the pause ends and the loop goes on
SuiteSleep ==
    /\ suite_pc = "sleep"
    /\ suite_i' = suite_i + 1
    /\ suite_pc' = "loop"
    /\ UNCHANGED <<suite_tasks, suite_results, suite_interrupted, suite_ret, runner_vars,
                   outside_suite>>

\* lines 183-196: run_task raised, an error result is appended and the loop
\* goes on without a pause
SuiteUnexpectedError ==
    /\ suite_pc = "task"
    /\ run_pc = "done"
    /\ suite_results' =
          Recorded(suite_results, suite_tasks[suite_i],
                   SuiteErrorResult(Exc("RuntimeError", <<"l","o","g","g","i","n","g"," ","f","a","i","l","e","d">>)))
    /\ suite_i' = suite_i + 1
    /\ run_pc' = "idle"
    /\ run_task_in' = NoRunTaskCall
    /\ run_clock' = 0
    /\ run_trace' = <<>>
    /\ run_process' = NoProcess
    /\ run_ret' = NoTaskResult
    /\ suite_pc' = "loop"
    /\ UNCHANGED <<suite_tasks, suite_interrupted, suite_ret, outside_suite>>

\* lines 180-182: the user interrupts run_task or the pause, and the loop is
\* left
SuiteKeyboardInterrupt ==
    /\ suite_pc \in {"task", "sleep"}
    /\ suite_interrupted' = TRUE
    /\ run_pc' = "idle"
    /\ run_task_in' = NoRunTaskCall
    /\ run_clock' = 0
    /\ run_trace' = <<>>
    /\ run_process' = NoProcess
    /\ run_ret' = NoTaskResult
    /\ suite_pc' = "break"
    /\ UNCHANGED <<suite_tasks, suite_i, suite_results, suite_ret, outside_suite>>

\* line 198: the loop is over and the results are returned
SuiteReturn ==
    /\ \/ suite_pc = "loop" /\ suite_i > Len(suite_tasks)
       \/ suite_pc = "break"
    /\ suite_ret' = suite_results
    /\ suite_pc' = "returned"
    /\ UNCHANGED <<suite_tasks, suite_i, suite_results, suite_interrupted, runner_vars,
                   outside_suite>>

(***************************************************************************)
(* TaskLoader.load_task and validate_task_file  (task_loader.py 142-187,   *)
(* 315-329)                                                                *)
(***************************************************************************)
TaskPaths == {"tasks/open_calculator.json", "tasks/save_note.json"}

\* what is at a path: no file, text that is not JSON, JSON the schema
\* rejects, JSON the schema accepts
FileKinds == {"missing", "malformed", "schema-invalid", "valid"}

NoTaskFiles == [p \in TaskPaths |-> "missing"]

LoaderCaught_validation_errors_only(e) == e.type = "ValidationError"

\* line 328: except (ValidationError, ValueError, FileNotFoundError)
LoaderCaught(e) == e.type \in {"ValidationError", "ValueError", "FileNotFoundError"}

\* load_task, lines 157-187: [raised, exc, cache]
load_task(cache, fs, task_file) ==
    IF task_file \in cache THEN [raised |-> FALSE, exc |-> NoExc, cache |-> cache]
    ELSE IF fs[task_file] = "missing"
    THEN [raised |-> TRUE, exc |-> Exc("FileNotFoundError", <<"T","a","s","k"," ","f","i","l","e"," ","n","o","t"," ","f","o","u","n","d">>),
          cache |-> cache]
    ELSE IF fs[task_file] = "malformed"
    THEN [raised |-> TRUE, exc |-> Exc("ValueError", <<"I","n","v","a","l","i","d"," ","J","S","O","N"," ","i","n"," ","t","a","s","k"," ","f","i","l","e">>),
          cache |-> cache]
    ELSE IF fs[task_file] = "schema-invalid"
    THEN [raised |-> TRUE, exc |-> Exc("ValidationError", <<"T","a","s","k"," ","v","a","l","i","d","a","t","i","o","n"," ","f","a","i","l","e","d">>),
          cache |-> cache]
    ELSE [raised |-> FALSE, exc |-> NoExc, cache |-> cache \cup {task_file}]

\* validate_task_file, lines 325-329: [raised, exc, ret, cache]
validate_task_file(cache, fs, task_file) ==
    LET l == load_task(cache, fs, task_file)
    IN  IF ~l.raised THEN [raised |-> FALSE, exc |-> NoExc, ret |-> TRUE, cache |-> l.cache]
        ELSE IF LoaderCaught(l.exc)
        THEN [raised |-> FALSE, exc |-> NoExc, ret |-> FALSE, cache |-> l.cache]
        ELSE [raised |-> TRUE, exc |-> l.exc, ret |-> FALSE, cache |-> l.cache]

NotValidated ==
    [called |-> FALSE, task_file |-> "", raised |-> FALSE, ret |-> FALSE, cache_before |-> {}]

\* load_task is called
LoadTask ==
    /\ \E task_file \in TaskPaths :
          task_cache' = load_task(task_cache, task_files, task_file).cache
    /\ validate_out' = NotValidated
    /\ UNCHANGED <<task_files, outside_loader>>

\* validate_task_file is called
ValidateTaskFile ==
    /\ \E task_file \in TaskPaths :
          LET v == validate_task_file(task_cache, task_files, task_file)
          IN  /\ task_cache' = v.cache
              /\ validate_out' = [called |-> TRUE, task_file |-> task_file,
                                  raised |-> v.raised, ret |-> v.ret,
                                  cache_before |-> task_cache]
    /\ UNCHANGED <<task_files, outside_loader>>

\* clear_cache, lines 331-333
ClearCache ==
    /\ task_cache # {}
    /\ task_cache' = {}
    /\ validate_out' = NotValidated
    /\ UNCHANGED <<task_files, outside_loader>>

\* a task file is written, edited or removed on disk
EditTaskFile ==
    /\ \E task_file \in TaskPaths, kind \in FileKinds :
          /\ task_files[task_file] # kind
          /\ task_files' = [task_files EXCEPT ![task_file] = kind]
    /\ validate_out' = NotValidated
    /\ UNCHANGED <<task_cache, outside_loader>>

(***************************************************************************)
(* MemoryStore.store_ui_snapshot  (memory_store.py 147-179) on the         *)
(* ui_snapshots table of _init_database (99-112)                           *)
(***************************************************************************)
\* the snapshots store_ui_snapshot is called with: checksum may be None
Checksums == {PyText("c1"), PyText("c2"), PyText("c3"), None}
UIGraphs == {"calculator", "notes"}

UISnapshot(ui_graph, checksum) == [ui_graph |-> ui_graph, checksum |-> checksum]

UISnapshots == {UISnapshot(g, c) : g \in UIGraphs, c \in Checksums}

ViolatesConstraint_not_null_only(rows, snapshot) == snapshot.checksum = None

\* line 109: checksum TEXT NOT NULL UNIQUE
ViolatesConstraint(rows, snapshot) ==
    \/ snapshot.checksum = None
    \/ \E i \in DOMAIN rows : rows[i].checksum = snapshot.checksum

\* lines 170-174: SELECT id FROM ui_snapshots WHERE checksum = ?
SelectIds(rows, checksum) ==
    IF checksum = None THEN {}
    ELSE {rows[i].id : i \in {j \in DOMAIN rows : rows[j].checksum = checksum}}

\* store_ui_snapshot, lines 149-179: [raised, ret, rows, seq]
store_ui_snapshot(rows, seq, snapshot) ==
    IF ~ViolatesConstraint(rows, snapshot)
    THEN [raised |-> FALSE, ret |-> seq + 1, seq |-> seq + 1,
          rows |-> Append(rows, [id |-> seq + 1, ui_graph |-> snapshot.ui_graph,
                                 checksum |-> snapshot.checksum])]
    ELSE LET found == SelectIds(rows, snapshot.checksum)
         IN  IF found # {}
             THEN [raised |-> FALSE, ret |-> Min(found), seq |-> seq, rows |-> rows]
             ELSE [raised |-> TRUE, ret |-> 0, seq |-> seq, rows |-> rows]

NotStored ==
    [called |-> FALSE, snapshot |-> UISnapshot("calculator", None), raised |-> FALSE,
     ret |-> 0, rows_before |-> <<>>]

\* store_ui_snapshot is called
StoreUISnapshot ==
    /\ \E snapshot \in UISnapshots :
          LET s == store_ui_snapshot(db_rows, db_seq, snapshot)
          IN  /\ db_rows' = s.rows
              /\ db_seq' = s.seq
              /\ store_out' = [called |-> TRUE, snapshot |-> snapshot, raised |-> s.raised,
                               ret |-> s.ret, rows_before |-> db_rows]
    /\ UNCHANGED outside_store
(***************************************************************************)
(* AgentlyPlanner._find_relevant_elements  (planner.py 337-365).  The      *)
(* elements of a ui_graph are kept in the order of the dict; an element id *)
(* is its position.                                                        *)
(***************************************************************************)
\* the most elements returned, line 365
RelevantLimit == 20

\* str.split(): the maximal runs of characters that are not whitespace
Words(s) ==
    { SubSeq(s, run[1], run[2]) :
        run \in { r \in (1..Len(s)) \X (1..Len(s)) :
                    /\ r[1] <= r[2]
                    /\ \A n \in r[1]..r[2] : ~IsSpace(s[n])
                    /\ (r[1] = 1 \/ IsSpace(s[r[1] - 1]))
                    /\ (r[2] = Len(s) \/ IsSpace(s[r[2] + 1])) } }

\* lines 346-350: label, title and value, "" for a missing one
TextFields(element) ==
    << DictGet(element, "label", PyStr(<<>>)), DictGet(element, "title", PyStr(<<>>)),
       DictGet(element, "value", PyStr(<<>>)) >>

\* " ".join of str values
JoinWithSpace(values) ==
    LET RECURSIVE J(_)
        J(n) == IF n = 0 THEN <<>>
                ELSE IF n = 1 THEN values[1].v
                ELSE J(n - 1) \o <<" ">> \o values[n].v
    IN  J(Len(values))

\* line 352: " ".join(filter(None, text_fields)) raises on a field that is
\* true and not a str
JoinRaises(element) ==
    \E i \in 1..3 : Truthy(TextFields(element)[i]) /\ TextFields(element)[i].t # "str"

\* line 352: the text of an element, in lower case
ElementText(element) ==
    Lower(JoinWithSpace(SelectSeq(TextFields(element), Truthy)))

IsRelevant_any_word(element, task) ==
    \E word \in Words(Lower(task)) : Contains(ElementText(element), word)

\* line 355: some word of the task longer than 2 characters is in the text
IsRelevant(element, task) ==
    \E word \in Words(Lower(task)) : Len(word) > 2 /\ Contains(ElementText(element), word)

\* lines 356-362: what is kept of a relevant element
RelevantEntry(id, element) ==
    [id |-> id, role |-> DictGet(element, "role", None),
     label |-> DictGet(element, "label", None), title |-> DictGet(element, "title", None),
     enabled |-> DictGet(element, "isEnabled", PyBool(FALSE))]

\* _find_relevant_elements, lines 337-365: [raised, relevant]; the loop stops
\* at the first element whose text cannot be joined
_find_relevant_elements(elements, task) ==
    LET relevant == { i \in DOMAIN elements : IsRelevant(elements[i], task) }
        kept == { i \in relevant : Cardinality({j \in relevant : j <= i}) <= RelevantLimit }
    IN  IF \E i \in DOMAIN elements : JoinRaises(elements[i])
        THEN [raised |-> TRUE, relevant |-> <<>>]
        ELSE [raised |-> FALSE,
              relevant |-> [n \in 1..Cardinality(kept) |->
                               LET i == CHOOSE i \in kept :
                                           Cardinality({j \in kept : j <= i}) = n
                               IN  RelevantEntry(i, elements[i])]]

\* the elements of test_planner.py (lines 20-45) and some others
SubmitButton ==
    PyDict([role |-> PyStr(<<"A","X","B","u","t","t","o","n">>), title |-> PyStr(<<"S","u","b","m","i","t">>),
            label |-> PyStr(<<"S","u","b","m","i","t"," ","B","u","t","t","o","n">>), isEnabled |-> PyBool(TRUE)])
NameField ==
    PyDict([role |-> PyStr(<<"A","X","T","e","x","t","F","i","e","l","d">>), label |-> PyStr(<<"N","a","m","e"," ","F","i","e","l","d">>),
            isEnabled |-> PyBool(TRUE)])
FormValue ==
    PyDict([role |-> PyStr(<<"A","X","S","t","a","t","i","c","T","e","x","t">>), label |-> None, value |-> PyStr(<<"O","r","d","e","r"," ","F","O","R","M">>)])
ToggleOn == PyDict([role |-> PyStr(<<"A","X","C","h","e","c","k","B","o","x">>), title |-> PyStr(<<"O","n">>)])
SliderValue == PyDict([role |-> PyStr(<<"A","X","S","l","i","d","e","r">>), value |-> PyNum(5)])

\* the most copies of one element in a graph
MaxCopies == 21

Copies(element, n) == [i \in 1..n |-> element]

\* the graphs: an element, copies of the Submit button, another element
RelevantGraphs ==
    { <<first>> \o Copies(SubmitButton, n) \o <<last>> :
        first \in {NameField, FormValue}, n \in {0, 1, RelevantLimit - 1, MaxCopies},
        last \in {NameField, FormValue, ToggleOn, SliderValue} }

RelevantTasks ==
    { <<"s","u","b","m","i","t"," ","t","h","e"," ","f","o","r","m">>, <<"S","u","b","m","i","t"," "," ","i","t">>, <<"g","o"," ","o","n">>, <<>>, <<"t","u","r","n"," ","i","t"," ","O","N"," ","n","o","w">> }

RelevantCalls == { [elements |-> g, task |-> t] : g \in RelevantGraphs, t \in RelevantTasks }

NoRelevantCall == [elements |-> <<>>, task |-> <<>>]
NotSearched == [called |-> FALSE, raised |-> FALSE, relevant |-> <<>>]

\* _find_relevant_elements is called
FindRelevantElements ==
    /\ ~relevant_out.called
    /\ relevant_in # NoRelevantCall
    /\ LET r == _find_relevant_elements(relevant_in.elements, relevant_in.task)
       IN  relevant_out' = [called |-> TRUE, raised |-> r.raised, relevant |-> r.relevant]
    /\ UNCHANGED <<relevant_in, outside_relevant>>

(***************************************************************************)
(* AgentlyAgent  (osworld_integration/osworld_agent.py 22-147).  The agent *)
(* has a planner of its own, constructed without a log directory.          *)
(***************************************************************************)
\* the number of predict calls between two resets is capped for the model
MaxPredicts == 2

\* list.extend(x): the items of a list, the characters of a str, the keys of
\* a dict
RECURSIVE KeysOf(_)
KeysOf(keys) ==
    IF keys = {} THEN <<>>
    ELSE LET k == CHOOSE k \in keys : TRUE
         IN  <<PyText(k)>> \o KeysOf(keys \ {k})

Extend(list, x) ==
    CASE x.t = "list" -> list \o x.v
      [] x.t = "str" -> list \o [i \in 1..Len(x.v) |-> PyStr(<<x.v[i]>>)]
      [] x.t = "dict" -> list \o KeysOf(DOMAIN x.v)
      [] OTHER -> list

\* the observations passed to predict: without an accessibility tree, with
\* one that is a ui_graph, with one that is no dict
Observations == { "no tree", "ui_graph", "not a dict" }

Instructions == { PyText("open the calculator"), PyText("") }

\* what the model answers the planner of the agent
AgentResponses ==
    { ApiError(ConnectionError), Completion(NonJsonText) }
    \cup { Completion(JsonText(JsonObject([reasoning |-> PyStr(<<"c","l","i","c","k"," ","S","u","b","m","i","t">>),
                                           actions |-> a, confidence |-> PyNum(90)]))) :
            a \in { Absent, PyStr(<<"w","a","i","t","(","2",")">>), PyDict([type |-> PyText("click")]),
                    PyList(<<PyStr(<<"c","l","i","c","k","(","b","u","t","t","o","n","_","1",")">>)>>),
                    PyList(<<PyStr(<<"c","l","i","c","k","(","b","u","t","t","o","n","_","1",")">>), PyStr(<<"w","a","i","t","(","2",")">>)>>) } }

\* what predict returns: the response text and the actions
Prediction(response, actions) == [response |-> response, actions |-> actions]

\* AgentlyAgent.predict, lines 74-123: [self, failed, ret]
predict(self, instruction, obs, response) ==
    LET observed == [self EXCEPT !.current_task = instruction,
                                 !.observation_history = Append(@, obs)]
        context == [task |-> instruction,
                    ui_graph |-> "well_formed", error_context |-> None]
        llm == _call_llm(None, 0, <<>>, "initial_planning", response, "ok", "ok")
        plan == generate_plan(context, llm).plan
    IN  IF obs = "no tree"
        THEN [self |-> observed, failed |-> TRUE,
              ret |-> Prediction(
                         PyFmt(<<"Error: ", <<"O","b","s","e","r","v","a","t","i","o","n"," ","m","u","s","t"," ","c","o","n","t","a","i","n"," ","'","a","c","c","e","s","s","i","b","i","l","i","t","y","_","t","r","e","e","'">>>>),
                         PyList(<<>>))]
        ELSE IF obs = "not a dict"
        THEN [self |-> observed, failed |-> TRUE,
              ret |-> Prediction(PyFmt(<<"Error: ", NoGetError>>), PyList(<<>>))]
        ELSE [self |-> [observed EXCEPT !.action_history = Extend(@, plan.actions)],
              failed |-> FALSE,
              ret |-> Prediction(PyFmt(<<"Generated plan: ", plan.reasoning>>),
                                 plan.actions)]

\* AgentlyAgent.reset, lines 125-147
reset(self) ==
    [self EXCEPT !.task_history = <<>>, !.action_history = <<>>,
                 !.observation_history = <<>>, !.current_task = None]

\* AgentlyAgent.__init__, lines 64-67
NewAgent ==
    [current_task |-> PyText("No task set"), action_history |-> <<>>,
     task_history |-> <<>>, observation_history |-> <<>>]

NoAgentCall ==
    [op |-> "none", failed |-> FALSE, ret |-> Prediction(None, PyList(<<>>)),
     before |-> NewAgent]

\* predict is called
Predict ==
    /\ Len(agent_returned) < MaxPredicts
    /\ \E instruction \in Instructions, obs \in Observations, response \in AgentResponses :
          LET p == predict(agent, instruction, obs, response)
          IN  /\ agent' = p.self
              /\ agent_last' = [op |-> "predict", failed |-> p.failed, ret |-> p.ret,
                                before |-> agent]
              /\ agent_returned' = Append(agent_returned, p.ret.actions)
    /\ UNCHANGED outside_agent

\* reset is called
Reset ==
    /\ agent_last.op # "reset"
    /\ agent' = reset(agent)
    /\ agent_last' = [op |-> "reset", failed |-> FALSE,
                      ret |-> Prediction(None, PyList(<<>>)), before |-> agent]
    /\ agent_returned' = <<>>
    /\ UNCHANGED outside_agent

(***************************************************************************)
(* Specifications.  Each entry point is used on its own (the verifier by   *)
(* verify_step.py, the planner by main.py), so each has its specification; *)
(* the other components then stay as constructed.                          *)
(***************************************************************************)
\* the state after construction, with no call made yet
Init ==
    /\ pc = "idle"
    /\ args = NoArgs
    /\ screenshot_path = None
    /\ files = {}
    /\ verification_result = NoResult
    /\ ret = NoReturn
    /\ trace = <<>>
    /\ model_reply = NoReply
    /\ analysis_reply = NoReply
    /\ policy_in = [verification_result |-> NoResult, max_retries |-> 3]
    /\ policy_out = NotCalled
    /\ plan_pc = "idle"
    /\ plan_entry = ""
    /\ plan_op = ""
    /\ plan_context = NoContext
    /\ plan_response = NoResponse
    /\ plan_llm = NoLLM
    /\ plan_ret = NoPlanReturn
    /\ select_args = NoSelectArguments
    /\ select_ret = NoSelectReturn
    /\ log_dir = None
    /\ conversation_counter = 0
    /\ log_files = <<>>
    /\ log_in = NoLogCall
    /\ log_out = NotLogged
    /\ planner_instances = 1
    /\ run_pc = "idle"
    /\ run_task_in = NoRunTaskCall
    /\ run_clock = 0
    /\ run_trace = <<>>
    /\ run_process = NoProcess
    /\ run_ret = NoTaskResult
    /\ prompt_in = NoPromptCall
    /\ prompt_out = NotFormatted
    /\ repair_in = NoRepairInput
    /\ repair_out = NotRepaired
    /\ relevant_in = NoRelevantCall
    /\ relevant_out = NotSearched
    /\ agent = NewAgent
    /\ agent_last = NoAgentCall
    /\ agent_returned = <<>>
    /\ suite_pc = "idle"
    /\ suite_tasks = <<>>
    /\ suite_i = 1
    /\ suite_results = <<>>
    /\ suite_interrupted = FALSE
    /\ suite_ret = <<>>
    /\ task_files = NoTaskFiles
    /\ task_cache = {}
    /\ validate_out = NotValidated
    /\ db_rows = <<>>
    /\ db_seq = 0
    /\ store_out = NotStored

\* the same, with a VerificationResult in the hands of a caller of the policy
InitPolicy ==
    /\ pc = "idle"
    /\ args = NoArgs
    /\ screenshot_path = None
    /\ files = {}
    /\ verification_result = NoResult
    /\ ret = NoReturn
    /\ trace = <<>>
    /\ model_reply = NoReply
    /\ analysis_reply = NoReply
    /\ policy_in \in PolicyCalls
    /\ policy_out = NotCalled
    /\ plan_pc = "idle"
    /\ plan_entry = ""
    /\ plan_op = ""
    /\ plan_context = NoContext
    /\ plan_response = NoResponse
    /\ plan_llm = NoLLM
    /\ plan_ret = NoPlanReturn
    /\ select_args = NoSelectArguments
    /\ select_ret = NoSelectReturn
    /\ log_dir = None
    /\ conversation_counter = 0
    /\ log_files = <<>>
    /\ log_in = NoLogCall
    /\ log_out = NotLogged
    /\ planner_instances = 1
    /\ run_pc = "idle"
    /\ run_task_in = NoRunTaskCall
    /\ run_clock = 0
    /\ run_trace = <<>>
    /\ run_process = NoProcess
    /\ run_ret = NoTaskResult
    /\ prompt_in = NoPromptCall
    /\ prompt_out = NotFormatted
    /\ repair_in = NoRepairInput
    /\ repair_out = NotRepaired
    /\ relevant_in = NoRelevantCall
    /\ relevant_out = NotSearched
    /\ agent = NewAgent
    /\ agent_last = NoAgentCall
    /\ agent_returned = <<>>
    /\ suite_pc = "idle"
    /\ suite_tasks = <<>>
    /\ suite_i = 1
    /\ suite_results = <<>>
    /\ suite_interrupted = FALSE
    /\ suite_ret = <<>>
    /\ task_files = NoTaskFiles
    /\ task_cache = {}
    /\ validate_out = NotValidated
    /\ db_rows = <<>>
    /\ db_seq = 0
    /\ store_out = NotStored

\* the same, with a template and keyword arguments in the hands of a caller
InitPrompts ==
    /\ pc = "idle"
    /\ args = NoArgs
    /\ screenshot_path = None
    /\ files = {}
    /\ verification_result = NoResult
    /\ ret = NoReturn
    /\ trace = <<>>
    /\ model_reply = NoReply
    /\ analysis_reply = NoReply
    /\ policy_in = [verification_result |-> NoResult, max_retries |-> 3]
    /\ policy_out = NotCalled
    /\ plan_pc = "idle"
    /\ plan_entry = ""
    /\ plan_op = ""
    /\ plan_context = NoContext
    /\ plan_response = NoResponse
    /\ plan_llm = NoLLM
    /\ plan_ret = NoPlanReturn
    /\ select_args = NoSelectArguments
    /\ select_ret = NoSelectReturn
    /\ log_dir = None
    /\ conversation_counter = 0
    /\ log_files = <<>>
    /\ log_in = NoLogCall
    /\ log_out = NotLogged
    /\ planner_instances = 1
    /\ run_pc = "idle"
    /\ run_task_in = NoRunTaskCall
    /\ run_clock = 0
    /\ run_trace = <<>>
    /\ run_process = NoProcess
    /\ run_ret = NoTaskResult
    /\ prompt_in \in PromptCalls
    /\ prompt_out = NotFormatted
    /\ repair_in = NoRepairInput
    /\ repair_out = NotRepaired
    /\ relevant_in = NoRelevantCall
    /\ relevant_out = NotSearched
    /\ agent = NewAgent
    /\ agent_last = NoAgentCall
    /\ agent_returned = <<>>
    /\ suite_pc = "idle"
    /\ suite_tasks = <<>>
    /\ suite_i = 1
    /\ suite_results = <<>>
    /\ suite_interrupted = FALSE
    /\ suite_ret = <<>>
    /\ task_files = NoTaskFiles
    /\ task_cache = {}
    /\ validate_out = NotValidated
    /\ db_rows = <<>>
    /\ db_seq = 0
    /\ store_out = NotStored

\* the same, with a model response in the hands of the repair parser
InitRepair ==
    /\ pc = "idle"
    /\ args = NoArgs
    /\ screenshot_path = None
    /\ files = {}
    /\ verification_result = NoResult
    /\ ret = NoReturn
    /\ trace = <<>>
    /\ model_reply = NoReply
    /\ analysis_reply = NoReply
    /\ policy_in = [verification_result |-> NoResult, max_retries |-> 3]
    /\ policy_out = NotCalled
    /\ plan_pc = "idle"
    /\ plan_entry = ""
    /\ plan_op = ""
    /\ plan_context = NoContext
    /\ plan_response = NoResponse
    /\ plan_llm = NoLLM
    /\ plan_ret = NoPlanReturn
    /\ select_args = NoSelectArguments
    /\ select_ret = NoSelectReturn
    /\ log_dir = None
    /\ conversation_counter = 0
    /\ log_files = <<>>
    /\ log_in = NoLogCall
    /\ log_out = NotLogged
    /\ planner_instances = 1
    /\ run_pc = "idle"
    /\ run_task_in = NoRunTaskCall
    /\ run_clock = 0
    /\ run_trace = <<>>
    /\ run_process = NoProcess
    /\ run_ret = NoTaskResult
    /\ prompt_in = NoPromptCall
    /\ prompt_out = NotFormatted
    /\ repair_in \in RepairInputs
    /\ repair_out = NotRepaired
    /\ relevant_in = NoRelevantCall
    /\ relevant_out = NotSearched
    /\ agent = NewAgent
    /\ agent_last = NoAgentCall
    /\ agent_returned = <<>>
    /\ suite_pc = "idle"
    /\ suite_tasks = <<>>
    /\ suite_i = 1
    /\ suite_results = <<>>
    /\ suite_interrupted = FALSE
    /\ suite_ret = <<>>
    /\ task_files = NoTaskFiles
    /\ task_cache = {}
    /\ validate_out = NotValidated
    /\ db_rows = <<>>
    /\ db_seq = 0
    /\ store_out = NotStored

\* the same, for a planner constructed with or without a log directory and
\* a caller about to log a conversation
InitLogger ==
    /\ pc = "idle"
    /\ args = NoArgs
    /\ screenshot_path = None
    /\ files = {}
    /\ verification_result = NoResult
    /\ ret = NoReturn
    /\ trace = <<>>
    /\ model_reply = NoReply
    /\ analysis_reply = NoReply
    /\ policy_in = [verification_result |-> NoResult, max_retries |-> 3]
    /\ policy_out = NotCalled
    /\ plan_pc = "idle"
    /\ plan_entry = ""
    /\ plan_op = ""
    /\ plan_context = NoContext
    /\ plan_response = NoResponse
    /\ plan_llm = NoLLM
    /\ plan_ret = NoPlanReturn
    /\ select_args = NoSelectArguments
    /\ select_ret = NoSelectReturn
    /\ log_dir \in LogDirs
    /\ conversation_counter = 0
    /\ log_files = <<>>
    /\ log_in \in LogCalls
    /\ log_out = NotLogged
    /\ planner_instances = 1
    /\ run_pc = "idle"
    /\ run_task_in = NoRunTaskCall
    /\ run_clock = 0
    /\ run_trace = <<>>
    /\ run_process = NoProcess
    /\ run_ret = NoTaskResult
    /\ prompt_in = NoPromptCall
    /\ prompt_out = NotFormatted
    /\ repair_in = NoRepairInput
    /\ repair_out = NotRepaired
    /\ relevant_in = NoRelevantCall
    /\ relevant_out = NotSearched
    /\ agent = NewAgent
    /\ agent_last = NoAgentCall
    /\ agent_returned = <<>>
    /\ suite_pc = "idle"
    /\ suite_tasks = <<>>
    /\ suite_i = 1
    /\ suite_results = <<>>
    /\ suite_interrupted = FALSE
    /\ suite_ret = <<>>
    /\ task_files = NoTaskFiles
    /\ task_cache = {}
    /\ validate_out = NotValidated
    /\ db_rows = <<>>
    /\ db_seq = 0
    /\ store_out = NotStored

\* the same, with a ui_graph and a task in the hands of a caller
InitRelevant ==
    /\ pc = "idle"
    /\ args = NoArgs
    /\ screenshot_path = None
    /\ files = {}
    /\ verification_result = NoResult
    /\ ret = NoReturn
    /\ trace = <<>>
    /\ model_reply = NoReply
    /\ analysis_reply = NoReply
    /\ policy_in = [verification_result |-> NoResult, max_retries |-> 3]
    /\ policy_out = NotCalled
    /\ plan_pc = "idle"
    /\ plan_entry = ""
    /\ plan_op = ""
    /\ plan_context = NoContext
    /\ plan_response = NoResponse
    /\ plan_llm = NoLLM
    /\ plan_ret = NoPlanReturn
    /\ select_args = NoSelectArguments
    /\ select_ret = NoSelectReturn
    /\ log_dir = None
    /\ conversation_counter = 0
    /\ log_files = <<>>
    /\ log_in = NoLogCall
    /\ log_out = NotLogged
    /\ planner_instances = 1
    /\ run_pc = "idle"
    /\ run_task_in = NoRunTaskCall
    /\ run_clock = 0
    /\ run_trace = <<>>
    /\ run_process = NoProcess
    /\ run_ret = NoTaskResult
    /\ prompt_in = NoPromptCall
    /\ prompt_out = NotFormatted
    /\ repair_in = NoRepairInput
    /\ repair_out = NotRepaired
    /\ relevant_in \in RelevantCalls
    /\ relevant_out = NotSearched
    /\ agent = NewAgent
    /\ agent_last = NoAgentCall
    /\ agent_returned = <<>>
    /\ suite_pc = "idle"
    /\ suite_tasks = <<>>
    /\ suite_i = 1
    /\ suite_results = <<>>
    /\ suite_interrupted = FALSE
    /\ suite_ret = <<>>
    /\ task_files = NoTaskFiles
    /\ task_cache = {}
    /\ validate_out = NotValidated
    /\ db_rows = <<>>
    /\ db_seq = 0
    /\ store_out = NotStored

\* a planner with a log directory, before its first model call
InitTranscripts ==
    /\ pc = "idle"
    /\ args = NoArgs
    /\ screenshot_path = None
    /\ files = {}
    /\ verification_result = NoResult
    /\ ret = NoReturn
    /\ trace = <<>>
    /\ model_reply = NoReply
    /\ analysis_reply = NoReply
    /\ policy_in = [verification_result |-> NoResult, max_retries |-> 3]
    /\ policy_out = NotCalled
    /\ plan_pc = "idle"
    /\ plan_entry = ""
    /\ plan_op = ""
    /\ plan_context = NoContext
    /\ plan_response = NoResponse
    /\ plan_llm = NoLLM
    /\ plan_ret = NoPlanReturn
    /\ select_args = NoSelectArguments
    /\ select_ret = NoSelectReturn
    /\ log_dir = PyText("runs/1/logs")
    /\ conversation_counter = 0
    /\ log_files = <<>>
    /\ log_in = NoLogCall
    /\ log_out = NotLogged
    /\ planner_instances = 1
    /\ run_pc = "idle"
    /\ run_task_in = NoRunTaskCall
    /\ run_clock = 0
    /\ run_trace = <<>>
    /\ run_process = NoProcess
    /\ run_ret = NoTaskResult
    /\ prompt_in = NoPromptCall
    /\ prompt_out = NotFormatted
    /\ repair_in = NoRepairInput
    /\ repair_out = NotRepaired
    /\ relevant_in = NoRelevantCall
    /\ relevant_out = NotSearched
    /\ agent = NewAgent
    /\ agent_last = NoAgentCall
    /\ agent_returned = <<>>
    /\ suite_pc = "idle"
    /\ suite_tasks = <<>>
    /\ suite_i = 1
    /\ suite_results = <<>>
    /\ suite_interrupted = FALSE
    /\ suite_ret = <<>>
    /\ task_files = NoTaskFiles
    /\ task_cache = {}
    /\ validate_out = NotValidated
    /\ db_rows = <<>>
    /\ db_seq = 0
    /\ store_out = NotStored

\* a loader with an empty cache, over the task files on disk
InitLoader ==
    /\ pc = "idle"
    /\ args = NoArgs
    /\ screenshot_path = None
    /\ files = {}
    /\ verification_result = NoResult
    /\ ret = NoReturn
    /\ trace = <<>>
    /\ model_reply = NoReply
    /\ analysis_reply = NoReply
    /\ policy_in = [verification_result |-> NoResult, max_retries |-> 3]
    /\ policy_out = NotCalled
    /\ plan_pc = "idle"
    /\ plan_entry = ""
    /\ plan_op = ""
    /\ plan_context = NoContext
    /\ plan_response = NoResponse
    /\ plan_llm = NoLLM
    /\ plan_ret = NoPlanReturn
    /\ select_args = NoSelectArguments
    /\ select_ret = NoSelectReturn
    /\ log_dir = None
    /\ conversation_counter = 0
    /\ log_files = <<>>
    /\ log_in = NoLogCall
    /\ log_out = NotLogged
    /\ planner_instances = 1
    /\ run_pc = "idle"
    /\ run_task_in = NoRunTaskCall
    /\ run_clock = 0
    /\ run_trace = <<>>
    /\ run_process = NoProcess
    /\ run_ret = NoTaskResult
    /\ prompt_in = NoPromptCall
    /\ prompt_out = NotFormatted
    /\ repair_in = NoRepairInput
    /\ repair_out = NotRepaired
    /\ relevant_in = NoRelevantCall
    /\ relevant_out = NotSearched
    /\ agent = NewAgent
    /\ agent_last = NoAgentCall
    /\ agent_returned = <<>>
    /\ suite_pc = "idle"
    /\ suite_tasks = <<>>
    /\ suite_i = 1
    /\ suite_results = <<>>
    /\ suite_interrupted = FALSE
    /\ suite_ret = <<>>
    /\ task_files \in [TaskPaths -> FileKinds]
    /\ task_cache = {}
    /\ validate_out = NotValidated
    /\ db_rows = <<>>
    /\ db_seq = 0
    /\ store_out = NotStored

\* StepVerifier.verify_step
Next ==
    \/ VerifyStep
    \/ CaptureScreenshot
    \/ PerformLLMValidation
    \/ StateAnalysis
    \/ SkipStateAnalysis
    \/ Return

Spec == Init /\ [][Next]_vars

\* StepVerifier.should_retry_step over every input of PolicyCalls
NextPolicy == ShouldRetryStep

SpecPolicy == InitPolicy /\ [][NextPolicy]_vars

\* AgentlyPlanner.generate_plan
NextPlanner ==
    \/ GeneratePlan
    \/ CallLLM
    \/ ParseResponse
    \/ PlanReturn

SpecPlanner == Init /\ [][NextPlanner]_vars

\* AgentlyPlanner.recover_from_error
NextRecovery ==
    \/ RecoverFromError
    \/ CallLLM
    \/ ParseResponse
    \/ PlanReturn

SpecRecovery == Init /\ [][NextRecovery]_vars

\* AgentlyPlanner.select_element
NextSelect ==
    \/ SelectElement
    \/ CallLLM
    \/ ParseResponse
    \/ PlanReturn

SpecSelect == Init /\ [][NextSelect]_vars

\* a planner constructed with or without a log directory, whose logger is
\* used by _call_llm and once directly
NextLogger ==
    \/ LogConversation
    \/ SelectElement
    \/ CallLLM
    \/ ParseResponse
    \/ PlanReturn

SpecLogger == InitLogger /\ [][NextLogger]_vars

\* successive planners on one log directory
NextTranscripts ==
    \/ NewPlanner
    \/ GeneratePlan
    \/ SelectElement
    \/ CallLLM
    \/ ParseResponse
    \/ PlanReturn

SpecTranscripts == InitTranscripts /\ [][NextTranscripts]_vars

\* PromptTemplate.format over every call of PromptCalls
NextPrompts == Format

SpecPrompts == InitPrompts /\ [][NextPrompts]_vars

\* _clean_json_response and json.loads over every response of RepairInputs
NextRepair == CleanAndParse

SpecRepair == InitRepair /\ [][NextRepair]_vars

\* TaskRunner.run_task
NextRunner ==
    \/ RunTask
    \/ SwiftBuild
    \/ SwiftRun
    \/ RunReturn

SpecRunner == Init /\ [][NextRunner]_vars

\* TaskRunner.run_task_suite
NextSuite ==
    \/ RunTaskSuite
    \/ SuiteRunTask
    \/ SwiftBuild
    \/ SwiftRun
    \/ SuiteRecord
    \/ SuiteSleep
    \/ SuiteUnexpectedError
    \/ SuiteKeyboardInterrupt
    \/ SuiteReturn

SpecSuite == Init /\ [][NextSuite]_vars

\* TaskLoader
NextLoader ==
    \/ LoadTask
    \/ ValidateTaskFile
    \/ ClearCache
    \/ EditTaskFile

SpecLoader == InitLoader /\ [][NextLoader]_vars

\* MemoryStore.store_ui_snapshot
NextStore == StoreUISnapshot

SpecStore == Init /\ [][NextStore]_vars

\* _find_relevant_elements over every call of RelevantCalls
NextRelevant == FindRelevantElements

SpecRelevant == InitRelevant /\ [][NextRelevant]_vars

\* AgentlyAgent.predict and reset in any order
NextAgent ==
    \/ Predict
    \/ Reset

SpecAgent == Init /\ [][NextAgent]_vars

(***************************************************************************)
(* Properties of generate_plan.                                            *)
(***************************************************************************)
\* the model call failed, or its content is blank or not JSON after repair
PlanningFailed ==
    \/ plan_response.raised
    \/ IsBlank(plan_response.content)
    \/ plan_response.content.t = "non_json_text"

\* C1: generate_plan never raises; when the model call throws, the content is
\* empty or whitespace, or the content is not valid JSON after repair, it
\* returns the fallback plan: reasoning "Error in planning: ...", no actions,
\* confidence 0.0.
C1_FallbackOnFailure ==
    /\ plan_ret.kind # "raised"
    /\ (plan_pc = "done" /\ PlanningFailed) =>
          /\ plan_ret.kind = "returned"
          /\ plan_ret.plan.reasoning.t = "fstr"
          /\ plan_ret.plan.reasoning.v[1] = "Error in planning: "
          /\ plan_ret.plan.actions = PyList(<<>>)
          /\ plan_ret.plan.confidence = PyNum(0)

\* the model call threw and generate_plan has returned
C1_Witness ==
    /\ plan_pc = "done"
    /\ plan_response.raised
    /\ plan_ret.kind = "returned"

\* C2: the plan generate_plan returns has a confidence in [0,1] and a list of
\* actions, whatever the model answered.
C2_PlanWellFormed ==
    plan_ret.kind = "returned" =>
        /\ plan_ret.plan.confidence.t = "num"
        /\ plan_ret.plan.confidence.v >= 0
        /\ plan_ret.plan.confidence.v <= 100
        /\ plan_ret.plan.actions.t = "list"

(***************************************************************************)
(* Properties of the Retry Policy.                                         *)
(***************************************************************************)
PolicyResult == policy_in.verification_result
PolicyReasoning == Lower(PolicyResult.reasoning.v)

\* C3: a result with success = true is never retried and the reason is
\* "Step verified successfully", whatever the other fields hold.
C3_SuccessNotRetried ==
    (policy_out.called /\ PolicyResult.success) =>
        /\ ~policy_out.should_retry
        /\ policy_out.reason = <<"Step verified successfully">>

\* a successful result with low confidence, an error keyword, a suggestion to
\* retry and a plan update has been decided
C3_Witness ==
    /\ policy_out.called
    /\ PolicyResult.success
    /\ PolicyResult.confidence < LowConfidence
    /\ Contains(PolicyReasoning, <<"e","r","r","o","r">>)
    /\ SuggestsRetry(PolicyResult.llm_response)
    /\ PolicyResult.plan_update # None

Rule2 == PolicyResult.confidence < 30
Rule3 == PolicyResult.confidence < 80
Rule4 == Contains(PolicyReasoning, <<"e","r","r","o","r">>)
Rule5 == Contains(PolicyReasoning, <<"n","o","t"," ","f","o","u","n","d">>)
Rule6 == Contains(PolicyReasoning, <<"f","a","i","l","e","d">>)
Rule7 == \E keyword \in IncompleteKeywords : Contains(PolicyReasoning, keyword)
Rule8 ==
    /\ PolicyResult.llm_response.t = "dict"
    /\ "suggested_next_action" \in DOMAIN PolicyResult.llm_response.v
    /\ PolicyResult.llm_response.v["suggested_next_action"].t = "str"
    /\ Contains(Lower(PolicyResult.llm_response.v["suggested_next_action"].v), <<"t","r","y">>)

\* C5: for a failed result the reason is that of the first rule that matches,
\* in the order low confidence, moderate confidence, "error", "not found",
\* "failed", incompleteness keyword, suggested action with "try", default.
C5_FirstMatchingRule ==
    (policy_out.called /\ ~PolicyResult.success) =>
        policy_out.reason =
            CASE Rule2 -> <<"Low confidence (", PolicyResult.confidence,
                            ") - step likely failed">>
              [] ~Rule2 /\ Rule3 ->
                    <<"Moderate confidence (", PolicyResult.confidence,
                      ") - step may have failed">>
              [] ~Rule3 /\ Rule4 -> <<"Error detected in verification">>
              [] ~Rule3 /\ ~Rule4 /\ Rule5 -> <<"Expected element not found">>
              [] ~Rule3 /\ ~Rule4 /\ ~Rule5 /\ Rule6 ->
                    <<"Step explicitly marked as failed">>
              [] ~Rule3 /\ ~Rule4 /\ ~Rule5 /\ ~Rule6 /\ Rule7 ->
                    <<"Task appears incomplete based on verification">>
              [] ~Rule3 /\ ~Rule4 /\ ~Rule5 /\ ~Rule6 /\ ~Rule7 /\ Rule8 ->
                    <<"LLM suggests retry action">>
              [] OTHER -> <<"Step verification failed - retrying for completion">>

\* confidence 0.2 with "error" in the reasoning gave the low-confidence reason
C5_Witness ==
    /\ policy_out.called
    /\ ~PolicyResult.success
    /\ PolicyResult.confidence = 20
    /\ Rule4
    /\ policy_out.reason = <<"Low confidence (", 20, ") - step likely failed">>

(***************************************************************************)
(* Properties of verify_step.                                              *)
(***************************************************************************)
InTrace(event) == \E i \in 1..Len(trace) : trace[i] = event

\* the validation request reached the model
ModelAsked ==
    \/ InTrace("chat.completions.create validation text")
    \/ InTrace("chat.completions.create validation text+image")

\* the State Analyzer was run
AnalyzerRan == InTrace("analyze_state_and_suggest_plan")

\* the captured screenshot file could not be read back for the request
ScreenshotUnreadable ==
    /\ AttachesImage(screenshot_path, files)
    /\ ~model_reply.read_ok

\* C6: for the simple action types wait, delay and sleep verify_step returns at
\* once: success, confidence 1.0, no retry, no screenshot path, no plan
\* update, and no screenshot, model call or State Analyzer run.
C6_SimpleActionFastPath ==
    (pc # "idle" /\ Lower(args.action_type) \in {<<"w","a","i","t">>, <<"d","e","l","a","y">>, <<"s","l","e","e","p">>}) =>
        /\ pc = "done"
        /\ ret.kind = "returned"
        /\ ret.value.success
        /\ ret.value.confidence = 100
        /\ ~ret.value.should_retry
        /\ ~Truthy(ret.value.screenshot_path)
        /\ ret.value.plan_update = None
        /\ trace = <<>>

\* verify_step was called with "sleep" and has returned
C6_Witness ==
    /\ pc = "done"
    /\ args.action_type = <<"s","l","e","e","p">>
    /\ ret.kind = "returned"

\* C7 as stated: every action_type other than wait, delay and sleep has a
\* screenshot capture attempted and the model asked before the result.
C7_OnlyExactSimpleSkips ==
    (pc = "done" /\ Lower(args.action_type) \notin {<<"w","a","i","t">>, <<"d","e","l","a","y">>, <<"s","l","e","e","p">>}) =>
        /\ InTrace("_capture_screenshot")
        /\ ModelAsked

\* C7 amended: the fast path is taken exactly when the lower-cased action_type
\* contains wait, delay or sleep; for every other action_type a screenshot
\* capture is attempted and the validation performed before the result, the
\* model being asked unless the captured screenshot cannot be read.
C7_SubstringSimpleSkips ==
    pc = "done" =>
        IF \E w \in {<<"w","a","i","t">>, <<"d","e","l","a","y">>, <<"s","l","e","e","p">>} : Contains(Lower(args.action_type), w)
        THEN trace = <<>> /\ ret = Returned(SimpleActionResult)
        ELSE /\ trace[1] = "_capture_screenshot"
             /\ ModelAsked \/ ScreenshotUnreadable
             /\ ret.kind = "returned"
             /\ ret.value.llm_response # None

\* an action_type that only contains "wait" took the fast path
C7_Witness ==
    /\ pc = "done"
    /\ args.action_type = <<"a","w","a","i","t","_","c","l","i","c","k">>
    /\ trace = <<>>
    /\ ret.kind = "returned"

\* the step failed, or more than 5 actions have completed
FailedOrLong ==
    \/ ~ret.value.success
    \/ /\ args.completed_actions.t = "list"
       /\ Len(args.completed_actions.v) > 5

ValidationFailed ==
    \/ ScreenshotUnreadable
    \/ model_reply.response.raised
    \/ IsBlank(model_reply.response.content)
    \/ model_reply.response.content.t = "non_json_text"
    \/ /\ model_reply.response.content.t = "json_text"
       /\ \/ model_reply.response.content.v.t # "dict"
          \/ /\ "confidence" \in DOMAIN model_reply.response.content.v.v
             /\ model_reply.response.content.v.v["confidence"] \in {None, PyStr(<<"h","i","g","h">>)}

\* C9: when the validation exchange fails in any way, the result has
\* success = false, confidence 0.0 and a synthesized llm_response with the
\* five fields, and verify_step still returns it.
C9_ValidationFailureAbsorbed ==
    /\ ret.kind # "raised"
    /\ (pc \in {"analysis", "done"} /\ trace # <<>> /\ ValidationFailed) =>
          /\ ~verification_result.success
          /\ verification_result.confidence = 0
          /\ verification_result.llm_response.t = "dict"
          /\ DOMAIN verification_result.llm_response.v =
                {"success", "confidence", "reasoning", "visual_evidence",
                 "suggested_next_action"}
          /\ verification_result.llm_response.v["success"] = PyBool(FALSE)
          /\ verification_result.llm_response.v["confidence"] = PyNum(0)
          /\ pc = "done" => ret = Returned(verification_result)

\* the model answered with a non-numeric confidence and verify_step returned
C9_Witness ==
    /\ pc = "done"
    /\ ret.kind = "returned"
    /\ model_reply.response.content.t = "json_text"
    /\ model_reply.response.content.v.t = "dict"
    /\ "confidence" \in DOMAIN model_reply.response.content.v.v
    /\ model_reply.response.content.v.v["confidence"] = PyStr(<<"h","i","g","h">>)

\* screencapture did not produce a screenshot
CaptureFailed ==
    /\ InTrace("_capture_screenshot")
    /\ ~InTrace("Image.save")
    /\ ~InTrace("shutil.copy2")

\* resizing raised, so the fallback copy was tried
ResizeFailed == InTrace("shutil.copy2")

\* the fallback copy of the original screenshot was written
CopyWritten == [name |-> FinalFile, content |-> "original"] \in files

AnalysisFailed ==
    \/ ~analysis_reply.read_ok
    \/ analysis_reply.response.raised
    \/ IsBlank(analysis_reply.response.content)
    \/ analysis_reply.response.content.t = "non_json_text"
    \/ /\ analysis_reply.response.content.t = "json_text"
       /\ analysis_reply.response.content.v.t # "dict"

\* str(e) of the exception the failed analysis request raised
AnalysisError ==
    IF ~analysis_reply.read_ok THEN FileReadError
    ELSE IF analysis_reply.response.raised THEN analysis_reply.response.error
    ELSE IF IsBlank(analysis_reply.response.content) THEN EmptyResponseError
    ELSE IF analysis_reply.response.content.t = "non_json_text" THEN JsonDecodeError
    ELSE NoGetError

\* the report is the degraded one as far as its flags go
DegradedFlags(report) ==
    /\ report.t = "dict"
    /\ report.v["task_completed"] = PyBool(FALSE)
    /\ report.v["plan_update_needed"] = PyBool(TRUE)

\* C11 as stated: when the State Analyzer's model call or response parsing
\* fails, the analyzer does not raise and returns the degraded report with
\* task_completed = false and plan_update_needed = true, and the error that
\* occurred is recorded under obstacles.
C11_ErrorUnderObstacles ==
    (pc = "done" /\ AnalyzerRan /\ AnalysisFailed) =>
        /\ ret.kind = "returned"
        /\ DegradedFlags(ret.value.plan_update)
        /\ \E i \in DOMAIN ret.value.plan_update.v["obstacles"].v :
              Contains(ret.value.plan_update.v["obstacles"].v[i].v, AnalysisError)

\* C11 amended: when the State Analyzer's model call or response parsing
\* fails, the analyzer does not raise and returns the degraded report with
\* task_completed = false and plan_update_needed = true; obstacles is the
\* fixed list ["Analysis error"] and the error that occurred is recorded in
\* plan_update_reason, as "Analysis failed: <error>".
C11_ErrorUnderReason ==
    (pc = "done" /\ AnalyzerRan /\ AnalysisFailed) =>
        /\ ret.kind = "returned"
        /\ DegradedFlags(ret.value.plan_update)
        /\ ret.value.plan_update.v["obstacles"] = PyList(<<PyStr(<<"A","n","a","l","y","s","i","s"," ","e","r","r","o","r">>)>>)
        /\ ret.value.plan_update.v["plan_update_reason"]
              = PyStr(<<"A","n","a","l","y","s","i","s"," ","f","a","i","l","e","d",":"," ">> \o AnalysisError)
        /\ ret.value.plan_update = DegradedReport(AnalysisError)

\* the analyzer's model call threw and verify_step has returned
C11_Witness ==
    /\ pc = "done"
    /\ AnalyzerRan
    /\ analysis_reply.response.raised
    /\ ret.kind = "returned"
    /\ ret.value.plan_update.t = "dict"

(***************************************************************************)
(* Properties of PromptTemplate.format.                                    *)
(***************************************************************************)
\* the required variables the call did not supply
MissingVariables == Range(prompt_in.self.required_variables) \ DOMAIN prompt_in.kwargs

\* the template text with each placeholder replaced by its argument and each
\* escaped brace by the brace
Substituted ==
    Join([i \in DOMAIN prompt_in.self.template |->
            IF prompt_in.self.template[i].k = "var"
            THEN prompt_in.kwargs[prompt_in.self.template[i].v]
            ELSE prompt_in.self.template[i].v])

\* C17: format fails with a missing-variable error that names the missing key
\* whenever a name of required_variables is absent from the keyword
\* arguments, and otherwise returns the template text with the variables
\* substituted; it changes no state of the template.
C17_MissingVariableNamed ==
    prompt_out.called =>
        /\ prompt_out.self = prompt_in.self
        /\ IF MissingVariables # {}
           THEN /\ prompt_out.raised
                /\ prompt_out.exc.type = "ValueError"
                /\ \E name \in MissingVariables :
                      prompt_out.exc.msg = <<"M","i","s","s","i","n","g"," ","r","e","q","u","i","r","e","d"," ","v","a","r","i","a","b","l","e",":"," ">> \o name
           ELSE /\ ~prompt_out.raised
                /\ prompt_out.text = Substituted

\* format was called with some, not all, of the required variables
C17_Witness ==
    /\ prompt_out.called
    /\ prompt_out.raised
    /\ MissingVariables # {}
    /\ DOMAIN prompt_in.kwargs \cap Range(prompt_in.self.required_variables) # {}

\* the keyword arguments of test_error_recovery_prompt
RecoveryTestVariables ==
    { <<"f","a","i","l","e","d","_","a","c","t","i","o","n">>, <<"e","r","r","o","r","_","m","e","s","s","a","g","e">>, <<"c","u","r","r","e","n","t","_","u","i","_","s","t","a","t","e">>, <<"o","r","i","g","i","n","a","l","_","t","a","s","k">>,
      <<"c","o","m","p","l","e","t","e","d","_","a","c","t","i","o","n","s">> }

\* C18: formatting the error-recovery template with failed_action,
\* error_message, current_ui_state, original_task and completed_actions
\* succeeds and returns a prompt that contains the error message, the
\* original task and the recovery_strategy response field.
C18_RecoveryPromptFormats ==
    ( /\ prompt_out.called
      /\ prompt_in.self = ERROR_RECOVERY
      /\ DOMAIN prompt_in.kwargs = RecoveryTestVariables ) =>
        /\ ~prompt_out.raised
        /\ Contains(prompt_out.text, prompt_in.kwargs[<<"e","r","r","o","r","_","m","e","s","s","a","g","e">>])
        /\ Contains(prompt_out.text, prompt_in.kwargs[<<"o","r","i","g","i","n","a","l","_","t","a","s","k">>])
        /\ Contains(prompt_out.text, <<"r","e","c","o","v","e","r","y","_","s","t","r","a","t","e","g","y">>)

(***************************************************************************)
(* Properties of the repair parser.                                        *)
(***************************************************************************)
\* C15: for any valid JSON object, wrapping its text in a code fence, adding
\* // line comments outside string literals, adding a /* */ block comment
\* and/or adding a trailing comma before a closing bracket, then running the
\* repair parser and parsing the result, yields an object deep-equal to the
\* original.
C15_RepairRoundTrip ==
    (repair_out.called /\ repair_in.object # NoObject) =>
        /\ ~repair_out.raised
        /\ repair_out.value = ObjectValue(repair_in.object)

\* C16: a // inside a double-quoted string value of the model output is
\* preserved verbatim by the repair parser: the string literal is in the
\* cleaned text as it was written.
C16_SlashesInStringPreserved ==
    ( /\ repair_out.called
      /\ repair_in.object # NoObject
      /\ Contains(repair_in.object.reasoning, <<"/","/">>) ) =>
        Contains(repair_out.text, Quoted(repair_in.object.reasoning))

(***************************************************************************)
(* Properties of recover_from_error and select_element.                    *)
(***************************************************************************)
\* _call_llm returned a content that parses to a JSON object
ParsedObject ==
    /\ plan_llm.called
    /\ ~plan_llm.raised
    /\ plan_llm.content.t = "json_text"
    /\ plan_llm.content.v.t = "dict"

\* recover_from_error is running on a context that has an error_context
Recovering == plan_entry = "recover_from_error" /\ Truthy(plan_context.error_context)

\* C12: for a context that has an error_context, recover_from_error never
\* raises; when the response parses to a JSON object the plan has confidence
\* exactly 0.7 and metadata {is_recovery: true}, whatever confidence the
\* model gave; on any failure the plan has confidence 0.0 and no actions.
C12_RecoveryConfidenceFixed ==
    Recovering =>
        /\ plan_ret.kind # "raised"
        /\ plan_pc = "done" =>
              /\ plan_ret.kind = "returned"
              /\ IF ParsedObject
                 THEN /\ plan_ret.plan.confidence = PyNum(70)
                      /\ plan_ret.plan.metadata = PyDict([is_recovery |-> PyBool(TRUE)])
                 ELSE /\ plan_ret.plan.confidence = PyNum(0)
                      /\ plan_ret.plan.actions = PyList(<<>>)

\* a recovery plan was returned for a response in which the model gave a
\* confidence of its own
C12_Witness ==
    /\ Recovering
    /\ plan_pc = "done"
    /\ ParsedObject
    /\ "confidence" \in DOMAIN plan_llm.content.v.v
    /\ plan_llm.content.v.v["confidence"] = PyNum(95)
    /\ plan_ret.plan.confidence = PyNum(70)

\* recover_from_error is running on a context whose error_context is None or
\* empty
RecoveringWithoutError ==
    plan_entry = "recover_from_error" /\ ~Truthy(plan_context.error_context)

\* C13: recover_from_error on a context whose error_context is None or empty
\* behaves as generate_plan on that context: the conversation is of type
\* initial_planning, the plan returned is the one generate_plan returns and
\* is not tagged is_recovery.
C13_DegradesToGeneratePlan ==
    RecoveringWithoutError =>
        /\ plan_llm.called => plan_llm.conversation_type = "initial_planning"
        /\ plan_pc = "done" =>
              /\ plan_ret = generate_plan(plan_context, plan_llm)
              /\ plan_ret.plan.metadata = None

\* recover_from_error got an empty error_context and returned the plan of
\* the model, with the model's confidence
C13_Witness ==
    /\ plan_entry = "recover_from_error"
    /\ plan_context.error_context = PyDict(<<>>)
    /\ plan_pc = "done"
    /\ plan_llm.called
    /\ plan_llm.conversation_type = "initial_planning"
    /\ plan_ret.kind = "returned"
    /\ plan_ret.plan.confidence = PyNum(90)

\* C14: select_element never raises; it returns the element_id of the
\* model's JSON object when the exchange succeeds, and None when the model
\* call throws, the response is empty, or the response cannot be parsed.
C14_SelectionOrNone ==
    plan_entry = "select_element" =>
        /\ select_ret.kind # "raised"
        /\ plan_pc = "done" =>
              /\ select_ret.kind = "returned"
              /\ select_ret.value =
                    IF ParsedObject
                    THEN DictGet(plan_llm.content.v, "element_id", None)
                    ELSE None

\* the model call threw and select_element returned None
C14_Witness ==
    /\ plan_entry = "select_element"
    /\ plan_pc = "done"
    /\ plan_response.raised
    /\ select_ret = SelectReturned(None)

(***************************************************************************)
(* Properties of the ConversationLogger.                                   *)
(***************************************************************************)
\* a log file was opened and nothing was written to it
SomeFileCutShort == \E name \in DOMAIN log_files : log_files[name] = <<>>

\* C19: log_conversation never raises, whatever the stage and the arguments;
\* without a log directory no file is created or changed; and what _call_llm
\* gives back is what the model API answered, whatever the file system did
\* to the log calls.
C19_LoggingNeverInterferes ==
    /\ ~log_out.raised
    /\ ~Truthy(log_dir) => log_files = <<>>
    /\ plan_llm.called =>
          /\ plan_llm.raised = plan_response.raised
          /\ plan_llm.raised =>
                plan_llm.exc = Exc("APIConnectionError", plan_response.error)
          /\ ~plan_llm.raised => plan_llm.content = plan_response.content

\* a direct log call met a file-system failure, and so did a log call of
\* _call_llm, which returned the model's answer
C19_Witness ==
    /\ Truthy(log_dir)
    /\ log_out.called
    /\ log_in.outcome # "ok"
    /\ plan_llm.called
    /\ ~plan_llm.raised
    /\ plan_llm.content.t = "json_text"
    /\ SomeFileCutShort

(***************************************************************************)
(* Properties of run_task.                                                 *)
(***************************************************************************)
\* the last external process timed out or exited with a non-zero status
ExternalFailure ==
    /\ run_trace # <<>>
    /\ \/ run_trace[Len(run_trace)].outcome \in {"timeout", "non-zero exit"}
       \/ run_process.kind = "completed" /\ run_process.returncode # 0

\* a str that is there and is not empty
NonEmptyMessage(m) ==
    /\ m.t \in {"str", "fstr"}
    /\ m.v # <<>>

\* run_task started each external command at most once
NotRetried ==
    \A i, j \in DOMAIN run_trace :
        run_trace[i].command = run_trace[j].command => i = j

\* C20: when the build or the runner times out or exits with a non-zero
\* status, run_task returns a TaskResult with success = false, the elapsed
\* time as execution time and a non-empty error_message, and no command is
\* started twice.
C20_FailureReported ==
    (run_pc = "done" /\ ExternalFailure) =>
        /\ run_ret.success = FALSE
        /\ run_ret.execution_time_seconds = run_clock
        /\ NonEmptyMessage(run_ret.error_message)
        /\ NotRetried

\* the runner exited with a non-zero status, or wrote something that is not
\* JSON
RunnerOutputUnusable ==
    /\ run_process.kind = "completed"
    /\ \/ run_process.returncode # 0
       \/ run_process.stdout.t # "json_text"

\* C21: a runner that exits with a non-zero status, or whose standard output
\* cannot be parsed as JSON, gives a TaskResult with success = false and no
\* successful action.
C21_UnusableOutputIsFailure ==
    (run_pc = "done" /\ RunnerOutputUnusable) =>
        /\ run_ret.success = FALSE
        /\ run_ret.successful_actions = 0

(***************************************************************************)
(* Properties of the relevant-element extraction.                          *)
(***************************************************************************)
\* some word of the task longer than 2 characters is, whatever the case, in
\* the label, the title or the value of the element
MatchesTask(element, task) ==
    \E word \in Words(task), field \in {"label", "title", "value"} :
        /\ Len(word) > 2
        /\ field \in DOMAIN element.v
        /\ element.v[field].t = "str"
        /\ Contains(Lower(element.v[field].v), Lower(word))

\* the positions of the elements that match the task
Matching == { i \in DOMAIN relevant_in.elements :
                MatchesTask(relevant_in.elements[i], relevant_in.task) }

\* the positions of the elements returned
ReturnedIds == { relevant_out.relevant[n].id : n \in DOMAIN relevant_out.relevant }

\* of the scenario's graph and task, the Submit button is returned and the
\* Name Field is not
ScenarioHolds ==
    (/\ relevant_in.task = <<"s","u","b","m","i","t"," ","t","h","e"," ","f","o","r","m">>
     /\ Len(relevant_in.elements) = 3
     /\ relevant_in.elements[1] = NameField
     /\ relevant_in.elements[2] = SubmitButton) =>
        (2 \in ReturnedIds /\ 1 \notin ReturnedIds)

\* C22: the extraction returns at most 20 elements, an element is returned
\* exactly when it matches the task, and in the scenario the button is
\* returned and the text field is not.
C22_ReturnedIffMatching ==
    (relevant_out.called /\ ~relevant_out.raised) =>
        /\ Len(relevant_out.relevant) <= 20
        /\ ReturnedIds = Matching
        /\ ScenarioHolds

\* C22 amended: the extraction returns, in the order of the graph, the first
\* 20 elements that match the task and no other; in the scenario the button
\* is returned and the text field is not.
C22_FirstTwentyMatching ==
    (relevant_out.called /\ ~relevant_out.raised) =>
        /\ Len(relevant_out.relevant) <= 20
        /\ ReturnedIds = { i \in Matching : Cardinality({j \in Matching : j <= i}) <= 20 }
        /\ \A n, m \in DOMAIN relevant_out.relevant :
              n < m => relevant_out.relevant[n].id < relevant_out.relevant[m].id
        /\ ScenarioHolds

\* more than 20 elements match the task and 20 were returned
C22_Witness ==
    /\ relevant_out.called
    /\ ~relevant_out.raised
    /\ Cardinality(Matching) > 20
    /\ Len(relevant_out.relevant) = 20

(***************************************************************************)
(* Properties of the AgentlyAgent.                                         *)
(***************************************************************************)
\* the actions of the returned action lists, in call order; what is
\* returned in place of a list counts as one action
RECURSIVE ActionsReturned(_)
ActionsReturned(returned) ==
    IF returned = <<>> THEN <<>>
    ELSE ActionsReturned(SubSeq(returned, 1, Len(returned) - 1)) \o
         (IF returned[Len(returned)].t = "list" THEN returned[Len(returned)].v
          ELSE <<returned[Len(returned)]>>)

\* C23: action_history holds exactly the actions returned by the predict
\* calls since the last reset, in call order; right after reset the three
\* histories are empty and current_task is None; a predict call that fails
\* returns an empty action list and leaves action_history as it was.
C23_HistoryIsWhatWasReturned ==
    /\ agent.action_history = ActionsReturned(agent_returned)
    /\ agent_last.op = "reset" =>
          /\ agent.task_history = <<>>
          /\ agent.action_history = <<>>
          /\ agent.observation_history = <<>>
          /\ agent.current_task = None
    /\ (agent_last.op = "predict" /\ agent_last.failed) =>
          /\ agent_last.ret.actions = PyList(<<>>)
          /\ agent.action_history = agent_last.before.action_history

(***************************************************************************)
(* The retry decision as a function of the verification outcome.           *)
(***************************************************************************)
\* the results that agree with vr on success, confidence, reasoning and
\* llm_response, with any plan_update and screenshot path
SameOutcome(vr) ==
    { [vr EXCEPT !.plan_update = p, !.screenshot_path = sp] :
        p \in {None, SampleReport, DegradedReport(AnalysisError)},
        sp \in {None, PyText("verification_screenshot.jpg")} }

\* the decision verify_step attached to the result it returned
DecisionOf(vr) == <<vr.should_retry, vr.retry_reason>>

\* C24: the retry decision is a function of success, confidence, reasoning
\* and llm_response.suggested_next_action: whatever the plan_update, the
\* screenshot path and max_retries, and whatever calls came before,
\* should_retry_step gives one decision for the returned result; the State
\* Analyzer's report changes neither success nor the decision attached.
C24_DecisionIgnoresReport ==
    /\ [](ret.kind = "returned" =>
            \A other \in SameOutcome(ret.value), max_retries \in {0, 1, 3} :
                should_retry_step(other, max_retries) = should_retry_step(ret.value, 3))
    /\ [][(pc = "analysis" /\ pc' = "done") =>
            /\ verification_result'.success = verification_result.success
            /\ DecisionOf(verification_result') = should_retry_step(verification_result, 3)]_vars

\* a failed step was returned with a State Analyzer report and a screenshot
\* path attached
C24_Witness ==
    /\ pc = "done"
    /\ ret.kind = "returned"
    /\ ~ret.value.success
    /\ ret.value.should_retry
    /\ AnalyzerRan
    /\ ret.value.plan_update.t = "dict"
    /\ ret.value.screenshot_path # None

\* the response is not empty and was cleaned
CleanedNonEmpty ==
    /\ repair_out.called
    /\ repair_in.response # None
    /\ Strip(repair_in.response.v) # <<>>

\* C25: the cleaning is idempotent: for every non-empty response, cleaning
\* the cleaned text gives the cleaned text.
C25_CleaningIdempotent ==
    CleanedNonEmpty =>
        /\ ~repair_out.again.raised
        /\ repair_out.again.text = repair_out.text

(***************************************************************************)
(* Properties of the transcripts _call_llm writes.                         *)
(***************************************************************************)
\* the transcript of the model call that was made
CallTranscript ==
    FileContent(log_files, LogFileName(conversation_counter, plan_llm.conversation_type))

\* how many sections of a transcript are of the given kinds
SectionCount(content, kinds) == Cardinality({i \in DOMAIN content : content[i] \in kinds})

\* C26: for a model call made with a log directory, the counter was
\* incremented once, the transcript starts with the request sections,
\* exactly one response or error section follows them, and a failed call
\* has the error section and is re-raised.
C26_OneOutcomeSection ==
    (plan_llm.called /\ Truthy(log_dir)) =>
        /\ conversation_counter = 1
        /\ Len(CallTranscript) >= 2
        /\ SubSeq(CallTranscript, 1, 2) = <<"header", "messages">>
        /\ SectionCount(CallTranscript, {"response", "error"}) = 1
        /\ plan_response.raised =>
              /\ SectionCount(CallTranscript, {"error"}) = 1
              /\ plan_llm.raised

\* the name of the transcript of the model call that is being made
NextTranscript == LogFileName(conversation_counter', ConversationType(plan_op))

\* C27: transcripts are append-only over the exchanges of successive
\* planners on one log directory: every step leaves each transcript with the
\* content it had as a prefix of its content, and a model call writes to a
\* transcript no earlier exchange wrote to.
C27_AppendOnly ==
    [][ /\ \A name \in DOMAIN log_files :
              /\ name \in DOMAIN log_files'
              /\ Len(log_files[name]) <= Len(log_files'[name])
              /\ SubSeq(log_files'[name], 1, Len(log_files[name])) = log_files[name]
        /\ (plan_pc = "call_llm" /\ plan_pc' # "call_llm") =>
              NextTranscript \notin DOMAIN log_files ]_vars

(***************************************************************************)
(* Properties of run_task_suite.                                           *)
(***************************************************************************)
\* the results are those of the first n tasks, one each and in their order
ResultsOfFirst(results, n) ==
    /\ Len(results) = n
    /\ n <= Len(suite_tasks)
    /\ \A k \in 1..n : results[k].task_id = suite_tasks[k].task_id

\* C28: run_task_suite runs the tasks one after another in list order: while
\* a task runs, the results of all tasks before it and of no other are
\* recorded; each task gives one result, whether it fails or not; the list
\* returned has the results in task order, all of them, or a prefix when the
\* user interrupted.
C28_SequentialInOrder ==
    /\ suite_pc = "task" => ResultsOfFirst(suite_results, suite_i - 1)
    /\ suite_pc = "sleep" => ResultsOfFirst(suite_results, suite_i)
    /\ suite_pc # "task" => run_pc = "idle"
    /\ suite_pc = "returned" =>
          IF suite_interrupted
          THEN \E n \in 0..Len(suite_tasks) : ResultsOfFirst(suite_ret, n)
          ELSE ResultsOfFirst(suite_ret, Len(suite_tasks))

\* a suite of two tasks returned two results, the first of a task that
\* failed, without an interruption
C28_Witness ==
    /\ suite_pc = "returned"
    /\ ~suite_interrupted
    /\ Len(suite_tasks) = 2
    /\ Len(suite_ret) = 2
    /\ ~suite_ret[1].result.success
    /\ suite_ret[2].result.success

(***************************************************************************)
(* Properties of the TaskLoader.                                           *)
(***************************************************************************)
\* C29: validate_task_file does not raise for a missing, malformed or
\* schema-invalid file, returns true exactly for a valid file, and leaves
\* the task cache as it was.
C29_ValidateLeavesCache ==
    validate_out.called =>
        /\ ~validate_out.raised
        /\ validate_out.ret = (task_files[validate_out.task_file] = "valid")
        /\ task_cache = validate_out.cache_before

(***************************************************************************)
(* Properties of the MemoryStore.                                          *)
(***************************************************************************)
\* the rows that hold the checksum
RowsWith(rows, checksum) == {i \in DOMAIN rows : rows[i].checksum = checksum}

\* C30: no two rows of ui_snapshots share a checksum or an id; storing a
\* snapshot whose checksum is stored leaves the table as it was and returns
\* the id of the row that holds the checksum.
C30_ChecksumUnique ==
    /\ \A i, j \in DOMAIN db_rows :
          (db_rows[i].checksum = db_rows[j].checksum \/ db_rows[i].id = db_rows[j].id)
              => i = j
    /\ \A i \in DOMAIN store_out.rows_before :
          /\ i \in DOMAIN db_rows
          /\ db_rows[i] = store_out.rows_before[i]
    /\ (store_out.called
          /\ RowsWith(store_out.rows_before, store_out.snapshot.checksum) # {}) =>
          /\ ~store_out.raised
          /\ db_rows = store_out.rows_before
          /\ \A i \in RowsWith(db_rows, store_out.snapshot.checksum) :
                store_out.ret = db_rows[i].id

\* a snapshot was stored whose checksum the first of two rows held, with
\* another ui_graph
C30_Witness ==
    /\ store_out.called
    /\ Len(store_out.rows_before) = 2
    /\ store_out.rows_before[1].checksum = store_out.snapshot.checksum
    /\ store_out.rows_before[1].ui_graph # store_out.snapshot.ui_graph
    /\ store_out.ret = 1
    /\ db_rows = store_out.rows_before
====
